---- MODULE Spec2Model ----
(***************************************************************************)
(* Neural TTS synthesis subsystem of pastel-hn (src-tauri/src/tts/neural). *)
(*                                                                         *)
(* The engine (synth.rs: NeuralTtsEngine, play_audio_blocking) is modelled *)
(* as a state machine whose steps are the suspension points and the        *)
(* atomic flag accesses of speak, speak_sentences and the playback thread. *)
(* The process-wide wrapper (mod.rs: NEURAL_TTS, speak, stop, get_status)  *)
(* is modelled on top of it with the RwLock that guards the engine.        *)
(*                                                                         *)
(* Text is a sequence of runs [c |-> character, n |-> repetitions]; a run  *)
(* with n > 1 is only used for the filler letter and, in arguments of      *)
(* chunk_text, for a sentence terminator, so that a text of several        *)
(* hundred characters stays a short sequence.  Every text operator below   *)
(* works on the characters the runs stand for.                             *)
(***************************************************************************)
EXTENDS Integers, Sequences, FiniteSets, TLC

(***************************************************************************)
(* Text helpers                                                            *)
(***************************************************************************)
Ch(c) == [c |-> c, n |-> 1]

Run(c, k) == [c |-> c, n |-> k]

Whitespace == {" ", "\n", "\t"}

IsWs(tok) == tok.c \in Whitespace

RECURSIVE TextLen(_)
\* str::len of the text a run sequence stands for (ASCII: bytes = characters)
TextLen(s) == IF s = <<>> THEN 0 ELSE Head(s).n + TextLen(Tail(s))

RECURSIVE DropN(_, _)
DropN(s, k) == IF k = 0 \/ s = <<>> THEN s ELSE DropN(Tail(s), k - 1)

RECURSIVE TrimStart(_)
TrimStart(s) == IF s # <<>> /\ IsWs(Head(s)) THEN TrimStart(Tail(s)) ELSE s

RECURSIVE TrimEnd(_)
TrimEnd(s) ==
    IF s # <<>> /\ IsWs(s[Len(s)]) THEN TrimEnd(SubSeq(s, 1, Len(s) - 1)) ELSE s

\* str::trim
Trim(s) == TrimEnd(TrimStart(s))

(***************************************************************************)
(* preprocess_text (synth.rs 468-477)                                      *)
(***************************************************************************)
\* text.replace(['\n', '\t'], " ")
ReplaceNlTab(s) ==
    [i \in 1..Len(s) |-> IF s[i].c \in {"\n", "\t"} THEN Run(" ", s[i].n) ELSE s[i]]

RECURSIVE ReplaceDoubleSpace(_)
\* .replace("  ", " "): one left-to-right pass over non-overlapping matches
ReplaceDoubleSpace(s) ==
    IF s = <<>> THEN <<>>
    ELSE IF Len(s) >= 2 /\ s[1].c = " " /\ s[2].c = " "
         THEN <<Ch(" ")>> \o ReplaceDoubleSpace(DropN(s, 2))
         ELSE <<Head(s)>> \o ReplaceDoubleSpace(Tail(s))

HttpPrefix == <<"h", "t", "t", "p", ":", "/", "/">>

HttpsPrefix == <<"h", "t", "t", "p", "s", ":", "/", "/">>

HasPrefix(s, p) ==
    /\ Len(s) >= Len(p)
    /\ \A i \in 1..Len(p) : s[i].c = p[i] /\ s[i].n = 1

RECURSIVE DropNonWs(_)
DropNonWs(s) == IF s # <<>> /\ ~IsWs(Head(s)) THEN DropNonWs(Tail(s)) ELSE s

\* length of the scheme part of a match of https?://\S+ at the head of s, 0 if none
UrlSchemeLen(s) ==
    IF HasPrefix(s, HttpsPrefix) /\ Len(s) > Len(HttpsPrefix)
          /\ ~IsWs(s[Len(HttpsPrefix) + 1])
    THEN Len(HttpsPrefix)
    ELSE IF HasPrefix(s, HttpPrefix) /\ Len(s) > Len(HttpPrefix)
               /\ ~IsWs(s[Len(HttpPrefix) + 1])
         THEN Len(HttpPrefix)
         ELSE 0

RECURSIVE RemoveUrls(_)
\* url_regex.replace_all(&text, "") with the regex https?://\S+
RemoveUrls(s) ==
    IF s = <<>> THEN <<>>
    ELSE IF UrlSchemeLen(s) > 0
         THEN RemoveUrls(DropNonWs(DropN(s, UrlSchemeLen(s))))
         ELSE <<Head(s)>> \o RemoveUrls(Tail(s))

preprocess_text(text) == Trim(RemoveUrls(ReplaceDoubleSpace(ReplaceNlTab(text))))

(***************************************************************************)
(* chunk_text (synth.rs 663-712)                                           *)
(***************************************************************************)
MAX_CHUNK_SIZE == 500

SentenceEnd == {".", "!", "?"}

RECURSIVE SplitSentences(_, _)
\* text.split(['.', '!', '?']): the pieces between terminators, empty ones included
SplitSentences(s, cur) ==
    IF s = <<>> THEN <<cur>>
    ELSE IF Head(s).c \in SentenceEnd
         THEN <<cur>> \o SplitSentences(Tail(s), <<>>)
         ELSE SplitSentences(Tail(s), Append(cur, Head(s)))

NonEmptySeq(p) == p # <<>>

\* .map(trim).filter(non-empty).map(|s| format!("{}.", s))
ChunkSentences(text) ==
    LET pieces  == SplitSentences(text, <<>>)
        trimmed == [i \in 1..Len(pieces) |-> Trim(pieces[i])]
        kept    == SelectSeq(trimmed, NonEmptySeq)
    IN  [i \in 1..Len(kept) |-> Append(kept[i], Ch("."))]

RECURSIVE CombineChunks_DropsFullChunk(_, _, _)
\* Faulty variant of CombineChunks: when a sentence does not fit, the chunk
\* collected so far is discarded instead of pushed.
CombineChunks_DropsFullChunk(sents, chunks, cur) ==
    IF sents = <<>>
    THEN IF cur # <<>> THEN Append(chunks, Trim(cur)) ELSE chunks
    ELSE LET sentence == Head(sents) IN
         IF TextLen(cur) + TextLen(sentence) + 1 > MAX_CHUNK_SIZE
         THEN CombineChunks_DropsFullChunk(Tail(sents), chunks, sentence)
         ELSE CombineChunks_DropsFullChunk(Tail(sents), chunks,
                                           IF cur # <<>> THEN cur \o <<Ch(" ")>> \o sentence
                                           ELSE sentence)

RECURSIVE CombineChunks_NeverFull(_, _, _)
\* Faulty variant of CombineChunks: the size test of line 689 is left out, so
\* every sentence that is not oversized joins the current chunk.
CombineChunks_NeverFull(sents, chunks, cur) ==
    IF sents = <<>>
    THEN IF cur # <<>> THEN Append(chunks, Trim(cur)) ELSE chunks
    ELSE LET sentence == Head(sents) IN
         IF TextLen(sentence) > MAX_CHUNK_SIZE
         THEN CombineChunks_NeverFull(Tail(sents),
                                      Append(IF cur # <<>> THEN Append(chunks, Trim(cur))
                                             ELSE chunks,
                                             sentence),
                                      <<>>)
         ELSE CombineChunks_NeverFull(Tail(sents), chunks,
                                      IF cur # <<>> THEN cur \o <<Ch(" ")>> \o sentence
                                      ELSE sentence)

RECURSIVE CombineChunks(_, _, _)
\* the loop of lines 678-700 followed by the flush of lines 702-704
CombineChunks(sents, chunks, cur) ==
    IF sents = <<>>
    THEN IF cur # <<>> THEN Append(chunks, Trim(cur)) ELSE chunks
    ELSE LET sentence == Head(sents) IN
         IF TextLen(sentence) > MAX_CHUNK_SIZE
         THEN CombineChunks(Tail(sents),
                            Append(IF cur # <<>> THEN Append(chunks, Trim(cur)) ELSE chunks,
                                   sentence),
                            <<>>)
         ELSE IF TextLen(cur) + TextLen(sentence) + 1 > MAX_CHUNK_SIZE
              THEN CombineChunks(Tail(sents),
                                 IF cur # <<>> THEN Append(chunks, Trim(cur)) ELSE chunks,
                                 sentence)
              ELSE CombineChunks(Tail(sents), chunks,
                                 IF cur # <<>> THEN cur \o <<Ch(" ")>> \o sentence
                                 ELSE sentence)

chunk_text(text) ==
    LET chunks == CombineChunks(ChunkSentences(text), <<>>, <<>>)
    IN  IF chunks = <<>> /\ text # <<>> THEN <<text>> ELSE chunks

(***************************************************************************)
(* f32 arithmetic of the rate (synth.rs 463-465, 612-613)                  *)
(*                                                                         *)
(* A value is NaN or a positive normal number m * 2^(e-23) with            *)
(* 2^23 <= m < 2^24. Comparisons with NaN are false, as in IEEE 754.       *)
(***************************************************************************)
F32(m, e) == [nan |-> FALSE, m |-> m, e |-> e]

NaN == [nan |-> TRUE, m |-> 0, e |-> 0]

\* PartialOrd::lt on f32
Lt(a, b) ==
    /\ ~a.nan
    /\ ~b.nan
    /\ \/ a.e < b.e
       \/ a.e = b.e /\ a.m < b.m

\* f32::clamp: if self < min { min } else if self > max { max } else { self }
clamp(x, min, max) ==
    LET y == IF Lt(x, min) THEN min ELSE x
    IN  IF Lt(max, y) THEN max ELSE y

\* floor(num * 2^k / den) and the remainder, by long division
RECURSIVE LongDiv(_, _, _, _)
LongDiv(q, r, den, k) ==
    IF k = 0 THEN [q |-> q, r |-> r]
    ELSE LET bit == IF 2 * r >= den THEN 1 ELSE 0
         IN  LongDiv(2 * q + bit, 2 * r - bit * den, den, k - 1)

\* f32 division of positive normal numbers, rounded to nearest, ties to even
Div(a, b) ==
    IF a.nan \/ b.nan THEN NaN
    ELSE LET k == IF a.m >= b.m THEN 24 ELSE 25
             d == LongDiv(a.m \div b.m, a.m % b.m, b.m, k)
             m == d.q \div 2
             up == d.q % 2 = 1 /\ (d.r # 0 \/ m % 2 = 1)
             e == a.e - b.e - (k - 24)
         IN  IF ~up THEN F32(m, e)
             ELSE IF m + 1 = 2^24 THEN F32(2^23, e + 1)
             ELSE F32(m + 1, e)

\* the f32 values used below: 0.1, 0.5, 1.0, 1.5, 2.0, 3.0 and the two values
\* just below 2.0
Tenth == F32(13421773, -4)

Half == F32(2^23, -1)

One == F32(2^23, 0)

OneAndHalf == F32(3 * 2^22, 0)

Two == F32(2^23, 1)

Three == F32(3 * 2^22, 1)

TwoPred == F32(2^24 - 1, 0)

TwoPredPred == F32(2^24 - 2, 0)

\* set_rate without the clamp
set_rate_Unclamped(cfg, r) ==
    [cfg EXCEPT !.rate = r]

\* set_rate (synth.rs 463-465): self.config.rate = rate.clamp(0.5, 2.0)
set_rate(cfg, r) ==
    [cfg EXCEPT !.rate = clamp(r, Half, Two)]

\* generate_audio passing the configured length scale on, whatever the rate
length_scale_IgnoresRate(inference, cfg) ==
    inference.length_scale

\* generate_audio (synth.rs 613): config.inference.length_scale / self.config.rate
length_scale(inference, cfg) ==
    Div(inference.length_scale, cfg.rate)

(***************************************************************************)
(* Bounds and input sets                                                   *)
(***************************************************************************)
\* longest sentence list handed to speak_sentences
MaxSentences == 3

\* poll intervals (of 50 ms) a non-empty waveform of one unit takes to play
WaveTicks == 2

\* number of concurrent callers of the process-wide wrapper
NumTasks == 2

SentenceA == <<Ch("A"), Ch(".")>>

SentenceB == <<Ch("B"), Ch(".")>>

\* a sentence that preprocess_text reduces to the empty string
SentenceBlank == <<Ch(" "), Ch("\n")>>

SentenceC == <<Ch("C"), Ch(".")>>

RECURSIVE SeqsUpTo(_, _)
SeqsUpTo(S, k) ==
    IF k = 0 THEN {<<>>}
    ELSE LET shorter == SeqsUpTo(S, k - 1)
         IN  shorter \cup {Append(q, x) : q \in shorter, x \in S}

\* every list of up to MaxSentences sentences that are "B." or blank, and the
\* list ["A.", "B.", "C."]
SentenceLists ==
    SeqsUpTo({SentenceB, SentenceBlank}, MaxSentences)
        \cup {<<SentenceA, SentenceB, SentenceC>>}

\* a sentence of 300 filler letters: two of them do not fit one chunk
LongSentence == <<Run("a", 300), Ch(".")>>

SpeakTexts ==
    { <<>>,
      SentenceA,
      SentenceA \o <<Ch(" ")>> \o SentenceB,
      LongSentence \o <<Ch(" ")>> \o LongSentence,
      LongSentence \o <<Ch(" ")>> \o LongSentence \o <<Ch(" ")>> \o LongSentence }

VoiceArgs == {"none", "amy"}

\* the ways generate_audio fails (text_to_phonemes / phonemes_to_ids, session.run)
GenErrors == {"PhonemeError", "InferenceError"}

\* generate_audio: an error, an empty waveform, or a non-empty waveform
GenOutcomes == GenErrors \cup {"empty", "audio"}

(***************************************************************************)
(* State                                                                   *)
(***************************************************************************)
VARIABLES
    is_speaking,    \* NeuralTtsEngine.is_speaking (Arc<AtomicBool>)
    model_session,  \* NeuralTtsEngine.model_session: "none" or the model id
    loaded_model,   \* NeuralTtsEngine.loaded_model
    piper_config,   \* NeuralTtsEngine.piper_config
    config,         \* NeuralTtsEngine.config (rate: an f32 value)
    disk_ready,     \* ModelManager::is_model_ready of the configured model
    pc,             \* position of the engine call in progress
    call,           \* the call in progress or last returned: kind and arguments
    index,          \* loop index of speak / speak_sentences
    chunks,         \* speak: the chunks of the preprocessed text
    all_audio,      \* speak: chunk numbers whose waveforms were concatenated
    pb,             \* position of the blocking playback thread
    sink,           \* poll intervals of audio left in the rodio sink
    play_result,    \* what play_audio_blocking returned
    log,            \* history: flag stores, inference, sink and channel events
    result,         \* what the last engine call returned
    initialized,    \* NEURAL_TTS.get().is_some()
    writer,         \* task holding the RwLock for writing, 0 if none
    tpc,            \* position of each caller of the process-wide wrapper
    tres,           \* what each caller's last speak request returned
    stop_info,      \* per caller's stop request: whether a speak was running when
                    \* it was issued, and whether it still was when the store ran
    status_info,    \* per caller's get_status request: whether a speak was running
                    \* when it was issued, and the is_speaking it was answered with
    model_dir,      \* whether the model's subdirectory exists
    disk,           \* byte length of each manifest file on disk, Absent if missing
    dl,             \* download_model in progress: position and locals
    mlog,           \* history of the last ModelManager call: requests, callbacks
    mret,           \* the last ModelManager call, its result, the disk before it
    fn_call,        \* the pure function applied and its argument
    fn_ret          \* what it returned

engine_vars == <<is_speaking, model_session, loaded_model, piper_config, config, disk_ready>>

call_vars == <<pc, call, index, chunks, all_audio, result>>

play_vars == <<pb, sink, play_result>>

global_vars == <<initialized, writer, tpc, tres, stop_info, status_info>>

manager_vars == <<model_dir, disk, dl, mlog, mret>>

fn_vars == <<fn_call, fn_ret>>

other_vars == <<manager_vars, fn_vars>>

vars == <<engine_vars, call_vars, play_vars, log, global_vars, other_vars>>

Tasks == 1..NumTasks

DefaultModel == "piper-en-us"

\* NeuralTtsConfig::default
DefaultConfig == [rate |-> One, voice_id |-> "default", model_id |-> DefaultModel]

\* an entry of the history
Ev(k, i, r, t) == [k |-> k, i |-> i, r |-> r, t |-> t]

Emit(k, i, r, t) == log' = Append(log, Ev(k, i, r, t))

IsEvent(e) == e.k \in {"Start", "End", "Stopped", "Finished"}

\* what the receiver of the mpsc channel has been sent, in order
events == SelectSeq(log, IsEvent)

(***************************************************************************)
(* Model manifest (model.rs 79-98) and the model directory                 *)
(***************************************************************************)
\* declared sizes of the two manifest files, scaled down from 63_201_294 and
\* 4_885 bytes; size_bytes is their sum as in the source
OnnxSize == 3

JsonSize == 1

PIPER_EN_US_MODEL ==
    [id |-> "piper-en-us",
     size_bytes |-> OnnxSize + JsonSize,
     files |-> <<[name |-> "en_US-lessac-medium.onnx", size |-> OnnxSize],
                 [name |-> "en_US-lessac-medium.onnx.json", size |-> JsonSize]>>]

FileNames == {PIPER_EN_US_MODEL.files[i].name : i \in DOMAIN PIPER_EN_US_MODEL.files}

NoFile == [exists |-> FALSE, len |-> 0]

File(n) == [exists |-> TRUE, len |-> n]

NoDownload ==
    [pc |-> "idle", idx |-> 0, completed_files |-> 0, total_downloaded |-> 0,
     file_downloaded |-> 0, cb |-> FALSE]

NoManagerCall ==
    [op |-> "none", result |-> "none", dir0 |-> FALSE, disk0 |-> <<>>,
     prev |-> [op |-> "none", result |-> "none", dir0 |-> FALSE]]

NoFnCall == [fn |-> "none", arg |-> <<>>]

NoFnResult == [done |-> FALSE, value |-> <<>>]

\* a fresh installation: no model directory, no ModelManager call made
ManagerInit ==
    /\ model_dir = FALSE
    /\ disk = [f \in FileNames |-> NoFile]
    /\ dl = NoDownload
    /\ mlog = <<>>
    /\ mret = NoManagerCall

FnInit ==
    /\ fn_call = NoFnCall
    /\ fn_ret = NoFnResult

\* no get_status request made
NoStatus == [asked |-> "none", answered |-> FALSE, is_speaking |-> FALSE]

NoCall == [kind |-> "none", sentences |-> <<>>, text |-> <<>>, model |-> "none"]

EngineInit ==
    /\ is_speaking = FALSE
    /\ model_session = "none"
    /\ loaded_model = "none"
    /\ piper_config = "none"
    /\ config = DefaultConfig
    /\ disk_ready \in BOOLEAN
    /\ pc = "idle"
    /\ call = NoCall
    /\ index = 0
    /\ chunks = <<>>
    /\ all_audio = <<>>
    /\ pb = "off"
    /\ sink = 0
    /\ play_result = "none"
    /\ log = <<>>
    /\ result = "none"
    /\ initialized = FALSE
    /\ writer = 0
    /\ tpc = [t \in Tasks |-> "idle"]
    /\ tres = [t \in Tasks |-> "none"]
    /\ stop_info = [t \in Tasks |-> "none"]
    /\ status_info = [t \in Tasks |-> NoStatus]

Init == EngineInit /\ ManagerInit /\ FnInit

(***************************************************************************)
(* load_model (synth.rs 191-262)                                           *)
(***************************************************************************)
KnownModels == {DefaultModel}

\* what can go wrong once the model is on disk: reading or parsing the config
\* JSON (209-224), or reading the weights and building the session (235-254)
LoadOutcomes == {"ok", "config_err", "session_err"}

\* a call may begin once the previous call's result and events were consumed
Quiescent == pc = "idle" /\ call.kind = "none"

load_model_result(model_id, o) ==
    IF model_id \notin KnownModels THEN "ModelNotLoaded"
    ELSE IF ~disk_ready THEN "ModelNotLoaded"
    ELSE IF loaded_model = model_id THEN "Ok"
    ELSE IF o = "config_err" THEN "ConfigError"
    ELSE IF o = "session_err" THEN "ModelNotLoaded"
    ELSE "Ok"

\* load_model gets past the readiness and already-loaded checks
LoadProceeds(model_id) ==
    model_id \in KnownModels /\ disk_ready /\ loaded_model # model_id

\* the outcomes that can be told apart for a load of model_id in this state
OutcomesFor(model_id) ==
    IF LoadProceeds(model_id) THEN LoadOutcomes ELSE {"ok"}

\* the outcomes of the lazy load at the head of speak / speak_sentences
LazyOutcomes ==
    IF model_session = "none" THEN OutcomesFor(config.model_id) ELSE {"ok"}

\* the engine fields load_model leaves behind; cfg is the config it starts from
load_model(model_id, o, cfg) ==
    LET proceeds == LoadProceeds(model_id) IN
    [ piper_config  |-> IF proceeds /\ o # "config_err" THEN model_id ELSE piper_config,
      model_session |-> IF proceeds /\ o = "ok" THEN model_id ELSE model_session,
      loaded_model  |-> IF proceeds /\ o = "ok" THEN model_id ELSE loaded_model,
      config        |-> IF proceeds /\ o = "ok"
                        THEN [cfg EXCEPT !.model_id = model_id] ELSE cfg ]

CurrentFields(cfg) ==
    [ piper_config |-> piper_config, model_session |-> model_session,
      loaded_model |-> loaded_model, config |-> cfg ]

SetFields(f) ==
    /\ piper_config' = f.piper_config
    /\ model_session' = f.model_session
    /\ loaded_model' = f.loaded_model
    /\ config' = f.config

\* if let Some(vid) = voice_id { self.config.voice_id = vid }
WithVoice(cfg, voice) ==
    IF voice # "none" THEN [cfg EXCEPT !.voice_id = voice] ELSE cfg

\* lines 271-273 and 362-364: the lazy load at the head of speak / speak_sentences
EnsureLoadedResult(o) ==
    IF model_session = "none" THEN load_model_result(config.model_id, o) ELSE "Ok"

\* the engine fields after the lazy load and, when it succeeded, the voice update
EnsureLoaded(o, voice, cfg) ==
    LET f == IF model_session = "none"
             THEN load_model(cfg.model_id, o, cfg) ELSE CurrentFields(cfg)
    IN  SetFields(IF EnsureLoadedResult(o) = "Ok"
                  THEN [f EXCEPT !.config = WithVoice(f.config, voice)] ELSE f)

(***************************************************************************)
(* NeuralTtsEngine::load_model called directly (synth.rs 191-262)          *)
(***************************************************************************)
LoadModelCall ==
    /\ Quiescent
    /\ \E model_id \in KnownModels \cup {"unknown"} : \E o \in OutcomesFor(model_id) :
          /\ SetFields(load_model(model_id, o, config))
          /\ result' = load_model_result(model_id, o)
          /\ call' = [NoCall EXCEPT !.kind = "load_model", !.model = model_id]
    /\ log' = <<>>
    /\ UNCHANGED <<is_speaking, disk_ready, pc, index, chunks, all_audio>>
    /\ UNCHANGED <<play_vars, global_vars, other_vars>>

(***************************************************************************)
(* NeuralTtsEngine::speak_sentences (synth.rs 355-459)                     *)
(***************************************************************************)
\* the sentence at the 0-based loop index
Sentence(i) == call.sentences[i + 1]

\* lines 361-378: lazy load, voice update, is_speaking.store(true)
BeginSpeakSentences(sentences, voice, cfg, o) ==
    /\ Quiescent
    /\ EnsureLoaded(o, voice, cfg)
    /\ call' = [NoCall EXCEPT !.kind = "speak_sentences", !.sentences = sentences]
    /\ index' = 0
    /\ IF EnsureLoadedResult(o) = "Ok"
       THEN /\ is_speaking' = TRUE
            /\ log' = <<Ev("mark", 0, "", <<>>)>>
            /\ pc' = "ss_loop"
            /\ result' = "pending"
       ELSE /\ log' = <<>>
            /\ pc' = "idle"
            /\ result' = EnsureLoadedResult(o)
            /\ UNCHANGED is_speaking
    /\ UNCHANGED <<disk_ready, chunks, all_audio, play_vars>>

SpeakSentencesCall ==
    /\ \E sentences \in SentenceLists, voice \in VoiceArgs, o \in LazyOutcomes :
          BeginSpeakSentences(sentences, voice, config, o)
    /\ UNCHANGED <<global_vars, other_vars>>

\* lines 381-392: loop head, the cancellation check and the empty-sentence skip
SS_LoopHead ==
    /\ pc = "ss_loop"
    /\ IF index >= Len(call.sentences)
       THEN /\ pc' = "ss_finish"
            /\ UNCHANGED <<index, log>>
       ELSE IF ~is_speaking
            THEN /\ Emit("Stopped", index, "", <<>>)
                 /\ pc' = "ss_finish"
                 /\ UNCHANGED index
            ELSE IF preprocess_text(Sentence(index)) = <<>>
                 THEN /\ index' = index + 1
                      /\ UNCHANGED <<pc, log>>
                 ELSE /\ pc' = "ss_gen"
                      /\ UNCHANGED <<index, log>>
    /\ UNCHANGED <<engine_vars, call, chunks, all_audio, result, play_vars, global_vars, other_vars>>

\* Faulty variant of SS_Generate: the End event of line 450 is sent when the
\* playback task is spawned instead of after it has been awaited.
SS_Generate_EndAtSpawn ==
    /\ pc = "ss_gen"
    /\ \E o \in GenOutcomes :
          IF o = "audio"
          THEN /\ log' = log \o <<Ev("gen", index, o, <<>>), Ev("End", index, "", <<>>)>>
               /\ pc' = "ss_wait"
               /\ pb' = "setup"
          ELSE /\ Emit("gen", index, o, <<>>)
               /\ pc' = "ss_end"
               /\ UNCHANGED pb
    /\ UNCHANGED <<engine_vars, call, index, chunks, all_audio, result>>
    /\ UNCHANGED <<sink, play_result, global_vars, other_vars>>

\* Faulty variant of SS_Generate: the Start event is sent when synthesis of the
\* sentence begins instead of from the playback callback.
SS_Generate_StartFirst ==
    /\ pc = "ss_gen"
    /\ \E o \in GenOutcomes :
          /\ log' = log \o <<Ev("Start", index, "", Sentence(index)),
                             Ev("gen", index, o, <<>>)>>
          /\ IF o = "audio"
             THEN pc' = "ss_wait" /\ pb' = "setup"
             ELSE pc' = "ss_end" /\ UNCHANGED pb
    /\ UNCHANGED <<engine_vars, call, index, chunks, all_audio, result>>
    /\ UNCHANGED <<sink, play_result, global_vars, other_vars>>

\* Faulty variant of SS_Generate: a synthesis error leaves the loop.
SS_Generate_AbortOnError ==
    /\ pc = "ss_gen"
    /\ \E o \in GenOutcomes :
          /\ Emit("gen", index, o, <<>>)
          /\ IF o = "audio"
             THEN pc' = "ss_wait" /\ pb' = "setup"
             ELSE IF o \in GenErrors
                  THEN pc' = "ss_finish" /\ UNCHANGED pb
                  ELSE pc' = "ss_end" /\ UNCHANGED pb
    /\ UNCHANGED <<engine_vars, call, index, chunks, all_audio, result>>
    /\ UNCHANGED <<sink, play_result, global_vars, other_vars>>

\* lines 396-427 and 443-447: generate_audio, then spawn the playback of a
\* non-empty waveform
SS_Generate ==
    /\ pc = "ss_gen"
    /\ \E o \in GenOutcomes :
          /\ Emit("gen", index, o, <<>>)
          /\ IF o = "audio"
             THEN pc' = "ss_wait" /\ pb' = "setup"
             ELSE pc' = "ss_end" /\ UNCHANGED pb
    /\ UNCHANGED <<engine_vars, call, index, chunks, all_audio, result>>
    /\ UNCHANGED <<sink, play_result, global_vars, other_vars>>

\* Faulty variant of SS_Join: a failed playback ends the call with an error,
\* without the End event of the sentence.
SS_Join_AbortOnPlayError ==
    /\ pc = "ss_wait"
    /\ pb = "done"
    /\ pb' = "off"
    /\ IF play_result = "Err"
       THEN /\ pc' = "idle"
            /\ result' = "PlaybackError"
            /\ is_speaking' = FALSE
       ELSE /\ pc' = "ss_end"
            /\ UNCHANGED <<result, is_speaking>>
    /\ UNCHANGED <<model_session, loaded_model, piper_config, config, disk_ready>>
    /\ UNCHANGED <<call, index, chunks, all_audio>>
    /\ UNCHANGED <<sink, play_result, log, global_vars, other_vars>>

\* Faulty variant of SS_Join: start_rx.await is resolved only by the callback's
\* send, not by the drop of the unused callback.
SS_Join_AwaitsStartSignal ==
    /\ pc = "ss_wait"
    /\ pb = "done"
    /\ \E p \in DOMAIN log : log[p].k = "Start" /\ log[p].i = index
    /\ pc' = "ss_end"
    /\ pb' = "off"
    /\ UNCHANGED <<engine_vars, call, index, chunks, all_audio, result>>
    /\ UNCHANGED <<sink, play_result, log, global_vars, other_vars>>

\* lines 427-441: the playback task has returned; start_rx is resolved or dropped
SS_Join ==
    /\ pc = "ss_wait"
    /\ pb = "done"
    /\ pc' = "ss_end"
    /\ pb' = "off"
    /\ UNCHANGED <<engine_vars, call, index, chunks, all_audio, result>>
    /\ UNCHANGED <<sink, play_result, log, global_vars, other_vars>>

\* Faulty variant of SS_EmitEnd: no End event once the flag was cleared.
SS_EmitEnd_NotWhenStopped ==
    /\ pc = "ss_end"
    /\ IF is_speaking THEN Emit("End", index, "", <<>>) ELSE UNCHANGED log
    /\ index' = index + 1
    /\ pc' = "ss_loop"
    /\ UNCHANGED <<engine_vars, call, chunks, all_audio, result, play_vars, global_vars, other_vars>>

\* line 450
SS_EmitEnd ==
    /\ pc = "ss_end"
    /\ Emit("End", index, "", <<>>)
    /\ index' = index + 1
    /\ pc' = "ss_loop"
    /\ UNCHANGED <<engine_vars, call, chunks, all_audio, result, play_vars, global_vars, other_vars>>

\* lines 453-458
SS_Finish ==
    /\ pc = "ss_finish"
    /\ is_speaking' = FALSE
    /\ Emit("Finished", index, "", <<>>)
    /\ result' = "Ok"
    /\ pc' = "idle"
    /\ UNCHANGED <<model_session, loaded_model, piper_config, config, disk_ready>>
    /\ UNCHANGED <<call, index, chunks, all_audio, play_vars, global_vars, other_vars>>

(***************************************************************************)
(* play_audio_blocking (synth.rs 730-781), run by spawn_blocking           *)
(***************************************************************************)
\* on_start is Some(..) for speak_sentences and None for speak
HasOnStart == call.kind = "speak_sentences"

\* poll intervals the buffer handed to the sink lasts
BufferTicks ==
    IF call.kind = "speak" THEN Len(all_audio) * WaveTicks ELSE WaveTicks

\* lines 739-755: WAV conversion, output stream, decoder, sink.append; each of
\* the first three may fail and return Err before anything is queued
PB_Setup ==
    /\ pb = "setup"
    /\ \E ok \in BOOLEAN :
          IF ok
          THEN /\ sink' = BufferTicks
               /\ Emit("append", index, "", <<>>)
               /\ pb' = "delay"
               /\ UNCHANGED play_result
          ELSE /\ play_result' = "Err"
               /\ Emit("playerr", index, "", <<>>)
               /\ pb' = "done"
               /\ UNCHANGED sink
    /\ UNCHANGED <<engine_vars, call_vars, global_vars, other_vars>>

\* line 761: the fixed pre-signal delay
PB_Delay ==
    /\ pb = "delay"
    /\ Emit("delay", index, "", <<>>)
    /\ pb' = "signal"
    /\ UNCHANGED <<engine_vars, call_vars, sink, play_result, global_vars, other_vars>>

\* Faulty variant of PB_OnStart: the callback sends the index of the next
\* sentence.
PB_OnStart_NextIndex ==
    /\ pb = "signal"
    /\ IF call.kind = "speak_sentences"
       THEN Emit("Start", index + 1, "", Sentence(index))
       ELSE UNCHANGED log
    /\ pb' = "poll"
    /\ UNCHANGED <<engine_vars, call_vars, sink, play_result, global_vars, other_vars>>

\* Faulty variant of PB_OnStart: the callback is dropped without being called.
PB_OnStart_Dropped ==
    /\ pb = "signal"
    /\ pb' = "poll"
    /\ UNCHANGED <<engine_vars, call_vars, sink, play_result, log, global_vars, other_vars>>

\* lines 764-766 with the callback of lines 409-421
PB_OnStart ==
    /\ pb = "signal"
    /\ IF HasOnStart
       THEN Emit("Start", index, "", Sentence(index))
       ELSE UNCHANGED log
    /\ pb' = "poll"
    /\ UNCHANGED <<engine_vars, call_vars, sink, play_result, global_vars, other_vars>>

\* lines 769-780: one turn of the polling loop, or the exit from it
PB_Poll ==
    /\ pb = "poll"
    /\ IF sink = 0
       THEN /\ pb' = "done"
            /\ play_result' = "Ok"
            /\ UNCHANGED <<sink, log>>
       ELSE IF ~is_speaking
            THEN /\ sink' = 0
                 /\ Emit("halt", index, "", <<>>)
                 /\ pb' = "done"
                 /\ play_result' = "Ok"
            ELSE /\ sink' = sink - 1
                 /\ UNCHANGED <<pb, play_result, log>>
    /\ UNCHANGED <<engine_vars, call_vars, global_vars, other_vars>>

(***************************************************************************)
(* NeuralTtsEngine::speak (synth.rs 265-335)                               *)
(***************************************************************************)
\* Faulty variant of BeginSpeak: the speaking flag is set before the lazy load.
BeginSpeak_MarkBeforeLoad(text, voice, cfg, o) ==
    /\ Quiescent
    /\ EnsureLoaded(o, voice, cfg)
    /\ call' = [NoCall EXCEPT !.kind = "speak", !.text = text]
    /\ index' = 0
    /\ all_audio' = <<>>
    /\ is_speaking' = TRUE
    /\ IF EnsureLoadedResult(o) = "Ok"
       THEN /\ chunks' = chunk_text(preprocess_text(text))
            /\ log' = <<Ev("mark", 0, "", <<>>)>>
            /\ pc' = "sp_loop"
            /\ result' = "pending"
       ELSE /\ chunks' = <<>>
            /\ log' = <<>>
            /\ pc' = "idle"
            /\ result' = EnsureLoadedResult(o)
    /\ UNCHANGED <<disk_ready, play_vars>>

\* lines 270-293: lazy load, voice update, preprocess, chunk, store(true)
BeginSpeak(text, voice, cfg, o) ==
    /\ Quiescent
    /\ EnsureLoaded(o, voice, cfg)
    /\ call' = [NoCall EXCEPT !.kind = "speak", !.text = text]
    /\ index' = 0
    /\ all_audio' = <<>>
    /\ IF EnsureLoadedResult(o) = "Ok"
       THEN /\ chunks' = chunk_text(preprocess_text(text))
            /\ is_speaking' = TRUE
            /\ log' = <<Ev("mark", 0, "", <<>>)>>
            /\ pc' = "sp_loop"
            /\ result' = "pending"
       ELSE /\ chunks' = <<>>
            /\ log' = <<>>
            /\ pc' = "idle"
            /\ result' = EnsureLoadedResult(o)
            /\ UNCHANGED is_speaking
    /\ UNCHANGED <<disk_ready, play_vars>>

SpeakCall ==
    /\ \E text \in SpeakTexts, voice \in VoiceArgs, o \in LazyOutcomes :
          BeginSpeak(text, voice, config, o)
    /\ UNCHANGED <<global_vars, other_vars>>

\* lines 295-299
SP_LoopHead ==
    /\ pc = "sp_loop"
    /\ IF index >= Len(chunks) \/ ~is_speaking
       THEN pc' = "sp_play"
       ELSE pc' = "sp_gen"
    /\ UNCHANGED <<engine_vars, call, index, chunks, all_audio, result>>
    /\ UNCHANGED <<play_vars, log, global_vars, other_vars>>

\* Faulty variant of SP_Generate: a failed chunk is skipped and the chunks
\* synthesized so far are played.
SP_Generate_SkipFailed ==
    /\ pc = "sp_gen"
    /\ \E o \in GenOutcomes :
          /\ Emit("gen", index, o, <<>>)
          /\ all_audio' = IF o = "audio" THEN Append(all_audio, index) ELSE all_audio
          /\ index' = index + 1
          /\ pc' = "sp_loop"
          /\ IF o \in GenErrors
             THEN result' = o /\ UNCHANGED is_speaking
             ELSE UNCHANGED <<is_speaking, result>>
    /\ UNCHANGED <<model_session, loaded_model, piper_config, config, disk_ready>>
    /\ UNCHANGED <<call, chunks, play_vars, global_vars, other_vars>>

\* Faulty variant of SP_Generate: the error return of lines 305-308 without the
\* store of line 306.
SP_Generate_NoClear ==
    /\ pc = "sp_gen"
    /\ \E o \in GenOutcomes :
          /\ Emit("gen", index, o, <<>>)
          /\ IF o \in GenErrors
             THEN /\ result' = o
                  /\ pc' = "idle"
                  /\ UNCHANGED <<index, all_audio>>
             ELSE /\ all_audio' = IF o = "audio" THEN Append(all_audio, index) ELSE all_audio
                  /\ index' = index + 1
                  /\ pc' = "sp_loop"
                  /\ UNCHANGED result
    /\ UNCHANGED <<engine_vars, call, chunks, play_vars, global_vars, other_vars>>

\* lines 301-309
SP_Generate ==
    /\ pc = "sp_gen"
    /\ \E o \in GenOutcomes :
          /\ Emit("gen", index, o, <<>>)
          /\ IF o \in GenErrors
             THEN /\ is_speaking' = FALSE
                  /\ result' = o
                  /\ pc' = "idle"
                  /\ UNCHANGED <<index, all_audio>>
             ELSE /\ all_audio' = IF o = "audio" THEN Append(all_audio, index) ELSE all_audio
                  /\ index' = index + 1
                  /\ pc' = "sp_loop"
                  /\ UNCHANGED <<is_speaking, result>>
    /\ UNCHANGED <<model_session, loaded_model, piper_config, config, disk_ready>>
    /\ UNCHANGED <<call, chunks, play_vars, global_vars, other_vars>>

\* lines 313-320
SP_Play ==
    /\ pc = "sp_play"
    /\ IF all_audio # <<>>
       THEN pc' = "sp_wait" /\ pb' = "setup"
       ELSE pc' = "sp_finish" /\ UNCHANGED pb
    /\ UNCHANGED <<engine_vars, call, index, chunks, all_audio, result>>
    /\ UNCHANGED <<sink, play_result, log, global_vars, other_vars>>

\* lines 320-331
SP_Join ==
    /\ pc = "sp_wait"
    /\ pb = "done"
    /\ pc' = "sp_finish"
    /\ pb' = "off"
    /\ UNCHANGED <<engine_vars, call, index, chunks, all_audio, result>>
    /\ UNCHANGED <<sink, play_result, log, global_vars, other_vars>>

\* lines 333-334
SP_Finish ==
    /\ pc = "sp_finish"
    /\ is_speaking' = FALSE
    /\ result' = "Ok"
    /\ pc' = "idle"
    /\ UNCHANGED <<model_session, loaded_model, piper_config, config, disk_ready>>
    /\ UNCHANGED <<call, index, chunks, all_audio, play_vars, log, global_vars, other_vars>>

(***************************************************************************)
(* NeuralTtsEngine::stop (synth.rs 338-341)                                *)
(***************************************************************************)
\* is_speaking.store(false); the history notes a store that changes the flag
StoreStop ==
    /\ is_speaking' = FALSE
    /\ log' = IF is_speaking THEN Append(log, Ev("stop", index, "", <<>>)) ELSE log

\* The flag is an Arc<AtomicBool> shared with the playback thread: the store is
\* a step that may fall anywhere in a running call.
Stop ==
    /\ StoreStop
    /\ UNCHANGED <<model_session, loaded_model, piper_config, config, disk_ready>>
    /\ UNCHANGED <<call_vars, play_vars, global_vars, other_vars>>

\* The caller has taken the returned result and dropped its event receiver: the
\* record of the finished call is discarded before the next call begins.
CallConsumed ==
    /\ pc = "idle"
    /\ call.kind # "none"
    /\ call' = NoCall
    /\ result' = "none"
    /\ log' = <<>>
    /\ index' = 0
    /\ chunks' = <<>>
    /\ all_audio' = <<>>
    /\ sink' = 0
    /\ play_result' = "none"
    /\ UNCHANGED <<engine_vars, pc, pb, global_vars, other_vars>>

\* delete_model (mod.rs 216-222) between two engine calls: the files are gone
FilesDeleted ==
    /\ Quiescent
    /\ disk_ready
    /\ disk_ready' = FALSE
    /\ UNCHANGED <<is_speaking, model_session, loaded_model, piper_config, config>>
    /\ UNCHANGED <<call_vars, play_vars, log, global_vars, other_vars>>

\* download_model (mod.rs 127-140) between two engine calls: the files are there
FilesDownloaded ==
    /\ Quiescent
    /\ ~disk_ready
    /\ disk_ready' = TRUE
    /\ UNCHANGED <<is_speaking, model_session, loaded_model, piper_config, config>>
    /\ UNCHANGED <<call_vars, play_vars, log, global_vars, other_vars>>

SentencesStep ==
    SS_LoopHead \/ SS_Generate \/ SS_Join \/ SS_EmitEnd \/ SS_Finish

PlaybackStep ==
    PB_Setup \/ PB_Delay \/ PB_OnStart \/ PB_Poll

SpeakStep ==
    SP_LoopHead \/ SP_Generate \/ SP_Play \/ SP_Join \/ SP_Finish

\* The engine used directly, as the tests of synth.rs do: one call at a time,
\* and the store of stop at any point of it.
Next ==
    \/ FilesDeleted
    \/ FilesDownloaded
    \/ LoadModelCall
    \/ SpeakSentencesCall
    \/ SpeakCall
    \/ Stop
    \/ SentencesStep
    \/ PlaybackStep
    \/ SpeakStep
    \/ CallConsumed

Spec == Init /\ [][Next]_vars

\* The engine under the scheduling the runtime provides: the task running the
\* call and the blocking playback thread each take their next step when one
\* is possible (every phonemizer, inference and playback call returns, and
\* the event receiver takes what is sent).  Calls and stops are not forced.
SpecLive ==
    /\ Init
    /\ [][Next]_vars
    /\ WF_vars(SentencesStep)
    /\ WF_vars(PlaybackStep)
    /\ WF_vars(SpeakStep)

(***************************************************************************)
(* The process-wide engine (mod.rs): NEURAL_TTS, speak, stop               *)
(***************************************************************************)
\* the rate argument of speak: None, or Some(rate)
RateArgs == {<<>>, <<Three>>, <<NaN>>}

GlobalTexts == {SentenceA, LongSentence \o <<Ch(" ")>> \o LongSentence}

SpeakRunning == \E u \in Tasks : tpc[u] = "speak_running"

\* init_neural (mod.rs 76-84)
InitNeural ==
    /\ ~initialized
    /\ initialized' = TRUE
    /\ UNCHANGED <<engine_vars, call_vars, play_vars, log, writer, tpc, tres, stop_info, status_info>>
    /\ UNCHANGED other_vars

\* speak is called (mod.rs 172-173): without an engine get_engine_mut fails,
\* otherwise the caller queues for the write lock.  The caller's records of its
\* earlier requests are dropped.
G_SpeakRequest(t) ==
    /\ tpc[t] = "idle"
    /\ IF initialized
       THEN tpc' = [tpc EXCEPT ![t] = "speak_wait"] /\ tres' = [tres EXCEPT ![t] = "none"]
       ELSE tres' = [tres EXCEPT ![t] = "NotInitialized"] /\ UNCHANGED tpc
    /\ stop_info' = [stop_info EXCEPT ![t] = "none"]
    /\ status_info' = [status_info EXCEPT ![t] = NoStatus]
    /\ UNCHANGED <<engine_vars, call_vars, play_vars, log, initialized, writer>>
    /\ UNCHANGED other_vars

\* Faulty variant of G_SpeakAcquire: the guard is handed out while another
\* caller holds it.
G_SpeakAcquire_NoExclusion(t) ==
    /\ tpc[t] = "speak_wait"
    /\ writer' = t
    /\ tpc' = [tpc EXCEPT ![t] = "speak_locked"]
    /\ UNCHANGED <<engine_vars, call_vars, play_vars, log, initialized, tres, stop_info, status_info>>
    /\ UNCHANGED other_vars

\* lock.write().await returns the guard (mod.rs 98)
G_SpeakAcquire(t) ==
    /\ tpc[t] = "speak_wait"
    /\ writer = 0
    /\ writer' = t
    /\ tpc' = [tpc EXCEPT ![t] = "speak_locked"]
    /\ UNCHANGED <<engine_vars, call_vars, play_vars, log, initialized, tres, stop_info, status_info>>
    /\ UNCHANGED other_vars

\* mod.rs 175-182: set_rate, then engine.speak begins
G_SpeakEnter(t) ==
    /\ tpc[t] = "speak_locked"
    /\ \E rate \in RateArgs, text \in GlobalTexts, voice \in VoiceArgs, o \in LazyOutcomes :
          BeginSpeak(text, voice,
                     IF rate = <<>> THEN config ELSE set_rate(config, rate[1]), o)
    /\ tpc' = [tpc EXCEPT ![t] = "speak_running"]
    /\ UNCHANGED <<initialized, writer, tres, stop_info, status_info>>
    /\ UNCHANGED other_vars

\* mod.rs 182-191: engine.speak has returned; an error falls back to the native
\* path; the guard is dropped.  The finished call's record goes with it.
G_SpeakReturn(t) ==
    /\ tpc[t] = "speak_running"
    /\ pc = "idle"
    /\ tres' = [tres EXCEPT ![t] = IF result = "Ok" THEN "Ok" ELSE "Fallback"]
    /\ writer' = 0
    /\ tpc' = [tpc EXCEPT ![t] = "idle"]
    /\ stop_info' = [u \in Tasks |->
                        IF stop_info[u] = "pending_during" THEN "pending_missed"
                        ELSE stop_info[u]]
    /\ status_info' = [u \in Tasks |->
                          IF status_info[u].asked = "during" /\ ~status_info[u].answered
                          THEN [status_info[u] EXCEPT !.asked = "missed"]
                          ELSE status_info[u]]
    /\ call' = NoCall
    /\ result' = "none"
    /\ log' = <<>>
    /\ index' = 0
    /\ chunks' = <<>>
    /\ all_audio' = <<>>
    /\ sink' = 0
    /\ play_result' = "none"
    /\ UNCHANGED <<engine_vars, pc, pb, initialized>>
    /\ UNCHANGED other_vars

\* stop is called (mod.rs 194-197) and queues for the write lock
G_StopRequest(t) ==
    /\ tpc[t] = "idle"
    /\ initialized
    /\ tpc' = [tpc EXCEPT ![t] = "stop_wait"]
    /\ stop_info' = [stop_info EXCEPT
                        ![t] = IF SpeakRunning THEN "pending_during" ELSE "pending_idle"]
    /\ status_info' = [status_info EXCEPT ![t] = NoStatus]
    /\ UNCHANGED <<engine_vars, call_vars, play_vars, log, initialized, writer, tres>>
    /\ UNCHANGED other_vars

\* mod.rs 197-198: the write guard is obtained, engine.stop() stores false, the
\* guard is dropped
G_StopRun(t) ==
    /\ tpc[t] = "stop_wait"
    /\ writer = 0
    /\ StoreStop
    /\ tpc' = [tpc EXCEPT ![t] = "idle"]
    /\ stop_info' = [stop_info EXCEPT
                        ![t] = IF stop_info[t] = "pending_during" THEN "ran_during"
                               ELSE IF stop_info[t] = "pending_missed" THEN "ran_after"
                               ELSE "ran_idle"]
    /\ UNCHANGED <<model_session, loaded_model, piper_config, config, disk_ready>>
    /\ UNCHANGED <<call_vars, play_vars, initialized, writer, tres, status_info>>
    /\ UNCHANGED other_vars

\* get_status is called (mod.rs 105-106); with the engine initialized it queues
\* for the read lock, otherwise it answers with the default status (110-118)
G_StatusRequest(t) ==
    /\ tpc[t] = "idle"
    /\ IF initialized
       THEN /\ tpc' = [tpc EXCEPT ![t] = "status_wait"]
            /\ status_info' = [status_info EXCEPT
                                  ![t] = [NoStatus EXCEPT
                                            !.asked = IF SpeakRunning THEN "during" ELSE "idle"]]
       ELSE /\ status_info' = [status_info EXCEPT
                                  ![t] = [asked |-> "uninitialized", answered |-> TRUE,
                                          is_speaking |-> FALSE]]
            /\ UNCHANGED tpc
    /\ tres' = [tres EXCEPT ![t] = "none"]
    /\ stop_info' = [stop_info EXCEPT ![t] = "none"]
    /\ UNCHANGED <<engine_vars, call_vars, play_vars, log, initialized, writer>>
    /\ UNCHANGED other_vars

\* mod.rs 107-108: lock.read().await returns once no writer holds the lock;
\* engine.get_status() loads the flag (synth.rs 173); the guard is dropped
G_StatusRun(t) ==
    /\ tpc[t] = "status_wait"
    /\ writer = 0
    /\ status_info' = [status_info EXCEPT
                          ![t] = [@ EXCEPT !.answered = TRUE, !.is_speaking = is_speaking]]
    /\ tpc' = [tpc EXCEPT ![t] = "idle"]
    /\ UNCHANGED <<engine_vars, call_vars, play_vars, log, initialized, writer, tres, stop_info>>
    /\ UNCHANGED other_vars

NextGlobal ==
    \/ InitNeural
    \/ \E t \in Tasks : G_SpeakRequest(t)
    \/ \E t \in Tasks : G_SpeakAcquire(t)
    \/ \E t \in Tasks : G_SpeakEnter(t)
    \/ \E t \in Tasks : G_SpeakReturn(t)
    \/ \E t \in Tasks : G_StopRequest(t)
    \/ \E t \in Tasks : G_StopRun(t)
    \/ \E t \in Tasks : G_StatusRequest(t)
    \/ \E t \in Tasks : G_StatusRun(t)
    \/ PlaybackStep
    \/ SpeakStep

SpecGlobal == Init /\ [][NextGlobal]_vars

(***************************************************************************)
(* ModelManager (model.rs 126-366), one call at a time on one directory    *)
(***************************************************************************)
\* bytes a response body may carry beyond the declared size of its file
MaxExtra == 1

\* largest chunk, in bytes, the response stream yields
MaxChunk == 2

ChunkSizes == 1..MaxChunk

Model == PIPER_EN_US_MODEL

RECURSIVE FilesReady(_, _)
\* the loop of lines 162-176: the first missing or wrongly sized file returns false
FilesReady(files, d) ==
    IF files = <<>> THEN TRUE
    ELSE LET file == Head(files) IN
         IF ~d[file.name].exists THEN FALSE
         ELSE IF d[file.name].len # file.size THEN FALSE
         ELSE FilesReady(Tail(files), d)

\* Faulty variant of is_model_ready: the size comparison of lines 170-173 is
\* left out.
is_model_ready_ExistenceOnly(model) ==
    IF ~model_dir THEN FALSE
    ELSE \A i \in DOMAIN model.files : disk[model.files[i].name].exists

\* is_model_ready (lines 154-179)
is_model_ready(model) ==
    IF ~model_dir THEN FALSE ELSE FilesReady(model.files, disk)

ManagerIdle == dl.pc = "idle"

\* the call just made, with the directory as it was when the call began and
\* the call made before it
ManagerCall(op, res) ==
    [op |-> op, result |-> res, dir0 |-> model_dir, disk0 |-> disk,
     prev |-> [op |-> mret.op, result |-> mret.result, dir0 |-> mret.dir0]]

IsModelReadyCall ==
    /\ ManagerIdle
    /\ mret' = ManagerCall("is_model_ready", is_model_ready(Model))
    /\ mlog' = <<>>
    /\ UNCHANGED <<model_dir, disk, dl>>
    /\ UNCHANGED <<engine_vars, call_vars, play_vars, log, global_vars, fn_vars>>

\* Faulty variant of delete_model: only the manifest's first file is removed.
delete_model_FirstFileOnly ==
    /\ ManagerIdle
    /\ disk' = [disk EXCEPT ![Model.files[1].name] = NoFile]
    /\ mret' = ManagerCall("delete_model", "Ok")
    /\ mlog' = <<>>
    /\ UNCHANGED <<model_dir, dl>>
    /\ UNCHANGED <<engine_vars, call_vars, play_vars, log, global_vars, fn_vars>>

\* delete_model (lines 286-294): remove_dir_all when the directory exists
delete_model ==
    /\ ManagerIdle
    /\ IF model_dir
       THEN /\ model_dir' = FALSE
            /\ disk' = [f \in FileNames |-> NoFile]
       ELSE UNCHANGED <<model_dir, disk>>
    /\ mret' = ManagerCall("delete_model", "Ok")
    /\ mlog' = <<>>
    /\ UNCHANGED dl
    /\ UNCHANGED <<engine_vars, call_vars, play_vars, log, global_vars, fn_vars>>

\* u8 cast of (bytes / size_bytes) * 100.0: truncates, saturates at 255
Progress(bytes) ==
    LET p == (bytes * 100) \div Model.size_bytes IN IF p > 255 THEN 255 ELSE p

\* the callback of lines 222-226 and 267-270, when one was passed
Callback(bytes) ==
    IF dl.cb THEN <<[k |-> "progress", f |-> "", n |-> Progress(bytes)]>> ELSE <<>>

MEntry(k, f, n) == [k |-> k, f |-> f, n |-> n]

\* what the free-space probe of check_disk_space can do: there is none on
\* targets other than macOS; on macOS df cannot be spawned, exits with a
\* failure status, or succeeds
DiskProbes == {"none", "spawn_error", "exit_failure", "success"}

\* check_disk_space (model.rs 335-355): Command::output()? hands the spawn
\* error on; every other outcome is Ok
check_disk_space(probe) ==
    IF probe = "spawn_error" THEN "IoError" ELSE "Ok"

\* download_model, lines 202-208: check_disk_space, create_dir_all, the counters
DownloadModelCall ==
    /\ ManagerIdle
    /\ \E probe \in DiskProbes :
          /\ mlog' = <<MEntry("probe", probe, 0)>>
          /\ IF check_disk_space(probe) = "Ok"
             THEN /\ \E cb \in BOOLEAN :
                        dl' = [pc |-> "file", idx |-> 1, completed_files |-> 0,
                               total_downloaded |-> 0, file_downloaded |-> 0, cb |-> cb]
                  /\ model_dir' = TRUE
                  /\ mret' = ManagerCall("download_model", "running")
             ELSE /\ mret' = ManagerCall("download_model", check_disk_space(probe))
                  /\ UNCHANGED <<dl, model_dir>>
    /\ UNCHANGED disk
    /\ UNCHANGED <<engine_vars, call_vars, play_vars, log, global_vars, fn_vars>>

\* download_model returns: the locals go, the result is kept
DownloadReturns(res) ==
    /\ mret' = [mret EXCEPT !.result = res]
    /\ dl' = NoDownload

\* Faulty variant of DL_File: the skip check of lines 214-229 is left out.
DL_File_NoSkip ==
    /\ dl.pc = "file"
    /\ IF dl.idx > Len(Model.files)
       THEN /\ DownloadReturns("Ok")
            /\ UNCHANGED <<disk, mlog>>
       ELSE LET file == Model.files[dl.idx] IN
            /\ mlog' = Append(mlog, MEntry("request", file.name, 0))
            /\ disk' = [disk EXCEPT ![file.name] = File(0)]
            /\ dl' = [dl EXCEPT !.pc = "stream", !.file_downloaded = 0]
            /\ UNCHANGED mret
    /\ UNCHANGED model_dir
    /\ UNCHANGED <<engine_vars, call_vars, play_vars, log, global_vars, fn_vars>>

\* Faulty variant of DL_File: a file is skipped as soon as it exists, whatever
\* its size.
DL_File_SkipExisting ==
    /\ dl.pc = "file"
    /\ IF dl.idx > Len(Model.files)
       THEN /\ DownloadReturns("Ok")
            /\ UNCHANGED <<disk, mlog>>
       ELSE LET file == Model.files[dl.idx] IN
            IF disk[file.name].exists
            THEN /\ dl' = [dl EXCEPT !.completed_files = @ + 1,
                                     !.total_downloaded = @ + file.size,
                                     !.idx = @ + 1]
                 /\ mlog' = Append(mlog, MEntry("skip", file.name, file.size))
                               \o Callback(dl.total_downloaded + file.size)
                 /\ UNCHANGED <<disk, mret>>
            ELSE /\ mlog' = Append(mlog, MEntry("request", file.name, 0))
                 /\ disk' = [disk EXCEPT ![file.name] = File(0)]
                 /\ dl' = [dl EXCEPT !.pc = "stream", !.file_downloaded = 0]
                 /\ UNCHANGED mret
    /\ UNCHANGED model_dir
    /\ UNCHANGED <<engine_vars, call_vars, play_vars, log, global_vars, fn_vars>>

\* lines 210-252 and 275-283: the head of the loop over the manifest.  After
\* the last file the call returns.  A file whose length on disk equals its
\* declared size is skipped.  Otherwise the file is requested: a transport
\* error or a status that is no success returns DownloadFailed, a success
\* creates (truncates) the file.
DL_File ==
    /\ dl.pc = "file"
    /\ IF dl.idx > Len(Model.files)
       THEN /\ DownloadReturns(IF dl.completed_files = Len(Model.files)
                               THEN "Ok" ELSE "DownloadFailed")
            /\ UNCHANGED <<disk, mlog>>
       ELSE LET file == Model.files[dl.idx] IN
            IF disk[file.name].exists /\ disk[file.name].len = file.size
            THEN /\ dl' = [dl EXCEPT !.completed_files = @ + 1,
                                     !.total_downloaded = @ + file.size,
                                     !.idx = @ + 1]
                 /\ mlog' = Append(mlog, MEntry("skip", file.name, file.size))
                               \o Callback(dl.total_downloaded + file.size)
                 /\ UNCHANGED <<disk, mret>>
            ELSE /\ mlog' = Append(mlog, MEntry("request", file.name, 0))
                 /\ \E response \in {"success", "status", "transport"} :
                       IF response = "success"
                       THEN /\ disk' = [disk EXCEPT ![file.name] = File(0)]
                            /\ dl' = [dl EXCEPT !.pc = "stream", !.file_downloaded = 0]
                            /\ UNCHANGED mret
                       ELSE /\ DownloadReturns("DownloadFailed")
                            /\ UNCHANGED disk
    /\ UNCHANGED model_dir
    /\ UNCHANGED <<engine_vars, call_vars, play_vars, log, global_vars, fn_vars>>

\* lines 254-273: the response stream yields a chunk, which is written and
\* reported, or an error, or ends
DL_Stream ==
    /\ dl.pc = "stream"
    /\ LET file == Model.files[dl.idx] IN
       \/ \E c \in ChunkSizes :
             /\ dl.file_downloaded + c <= file.size + MaxExtra
             /\ disk' = [disk EXCEPT ![file.name] = File(@.len + c)]
             /\ dl' = [dl EXCEPT !.file_downloaded = @ + c]
             /\ mlog' = Append(mlog, MEntry("chunk", file.name, c))
                           \o Callback(dl.total_downloaded + dl.file_downloaded + c)
             /\ UNCHANGED mret
       \/ /\ DownloadReturns("DownloadFailed")
          /\ UNCHANGED <<disk, mlog>>
       \/ /\ dl' = [dl EXCEPT !.completed_files = @ + 1,
                              !.total_downloaded = @ + dl.file_downloaded,
                              !.file_downloaded = 0,
                              !.idx = @ + 1,
                              !.pc = "file"]
          /\ UNCHANGED <<disk, mlog, mret>>
    /\ UNCHANGED model_dir
    /\ UNCHANGED <<engine_vars, call_vars, play_vars, log, global_vars, fn_vars>>

NextManager ==
    \/ IsModelReadyCall
    \/ delete_model
    \/ DownloadModelCall
    \/ DL_File
    \/ DL_Stream

SpecManager == Init /\ [][NextManager]_vars

(***************************************************************************)
(* phonemes_to_ids and generate_audio (synth.rs 517-659)                   *)
(***************************************************************************)
\* longest phoneme string handed to phonemes_to_ids
MaxPhonemes == 3

\* a phoneme-ID map with the sentinels "^", "_", "$", the space token and two
\* phonemes, one of them with two IDs
FullMap ==
    ("^" :> <<1>>) @@ ("_" :> <<0>>) @@ ("$" :> <<2>>) @@ (" " :> <<3>>)
        @@ ("a" :> <<4>>) @@ ("b" :> <<5, 6>>)

\* the same without the space token
NoSpaceMap ==
    ("^" :> <<1>>) @@ ("_" :> <<0>>) @@ ("$" :> <<2>>)
        @@ ("a" :> <<4>>) @@ ("b" :> <<5, 6>>)

\* a map without sentinels
BareMap == ("a" :> <<4>>)

PhonemeMaps == {FullMap, NoSpaceMap, BareMap}

\* piper_config: Some(config) with its phoneme_id_map, or None
PiperConfigs ==
    {[loaded |-> TRUE, phoneme_id_map |-> m] : m \in PhonemeMaps}
        \cup {[loaded |-> FALSE, phoneme_id_map |-> BareMap]}

\* characters espeak-ng may print: mapped phonemes, whitespace, an unmapped one
PhonemeChars == {"a", "b", " ", "\n", "x"}

PhonemeStrings == SeqsUpTo(PhonemeChars, MaxPhonemes)

\* phoneme_id_map.get(key), with no IDs for a missing key
MapGet(map, key) == IF key \in DOMAIN map THEN map[key] ELSE <<>>

RECURSIVE PhonemeLoop_NoBlanks(_, _, _, _)
\* Faulty variant of PhonemeLoop: no blank block after a phoneme.
PhonemeLoop_NoBlanks(map, blank_ids, phonemes, ids) ==
    IF phonemes = <<>> THEN ids
    ELSE LET ch == Head(phonemes) IN
         IF ch \in DOMAIN map
         THEN PhonemeLoop_NoBlanks(map, blank_ids, Tail(phonemes), ids \o map[ch])
         ELSE PhonemeLoop_NoBlanks(map, blank_ids, Tail(phonemes), ids)

RECURSIVE PhonemeLoop(_, _, _, _)
\* the loop of lines 537-558: a mapped character adds its IDs, an unmapped
\* whitespace character the IDs of the space token if there is one, each
\* followed by the blank IDs; any other character is skipped
PhonemeLoop(map, blank_ids, phonemes, ids) ==
    IF phonemes = <<>> THEN ids
    ELSE LET ch == Head(phonemes) IN
         IF ch \in DOMAIN map
         THEN PhonemeLoop(map, blank_ids, Tail(phonemes), ids \o map[ch] \o blank_ids)
         ELSE IF ch \in Whitespace
              THEN PhonemeLoop(map, blank_ids, Tail(phonemes),
                               ids \o MapGet(map, " ") \o blank_ids)
              ELSE PhonemeLoop(map, blank_ids, Tail(phonemes), ids)

FnOk(v) == [ok |-> TRUE, err |-> "", value |-> v]

FnErr(e) == [ok |-> FALSE, err |-> e, value |-> <<>>]

\* phonemes_to_ids (lines 517-573)
phonemes_to_ids(piper, phonemes) ==
    IF ~piper.loaded THEN FnErr("ConfigError")
    ELSE LET map       == piper.phoneme_id_map
             blank_ids == MapGet(map, "_")
             ids       == PhonemeLoop(map, blank_ids, phonemes,
                                      MapGet(map, "^") \o blank_ids)
                              \o MapGet(map, "$")
         IN  IF ids = <<>> THEN FnErr("PhonemeError") ELSE FnOk(ids)

\* what session.run and the extraction of its output give (lines 600-659)
InferenceOutcomes == {"audio", "empty", "InferenceError"}

\* generate_audio (lines 576-659) on a loaded engine: espeak is what
\* text_to_phonemes returned, run what the session gives if it is run.  The
\* result tells whether the session was run.
generate_audio(piper, espeak, run) ==
    IF ~espeak.ok THEN [result |-> "PhonemeError", inferred |-> FALSE]
    ELSE LET phoneme_ids == phonemes_to_ids(piper, espeak.value) IN
         IF ~phoneme_ids.ok THEN [result |-> phoneme_ids.err, inferred |-> FALSE]
         ELSE [result |-> run, inferred |-> TRUE]

(***************************************************************************)
(* The text and phoneme functions applied to drawn arguments               *)
(***************************************************************************)
\* longest text, in runs, handed to chunk_text
MaxTokens == 6

\* runs a text is made of: a letter, a long run of letters, a terminator, a
\* space, and a run of terminators, two of which are longer than a chunk
ChunkTokens == {Ch("a"), Run("a", 249), Ch("."), Ch(" "), Run("!", 497)}

ChunkTexts == SeqsUpTo(ChunkTokens, MaxTokens)

\* rates handed to set_rate
RateInputs == {Tenth, Half, One, OneAndHalf, TwoPredPred, TwoPred, Two, Three, NaN}

\* InferenceConfig of the Piper model configuration (length_scale 1.0)
Inference == [length_scale |-> One]

\* most pieces a preprocess_text argument is made of
MaxPieces == 3

\* a text of single characters
Chars(cs) == [i \in 1..Len(cs) |-> Ch(cs[i])]

\* pieces of preprocess_text arguments: a letter, white space, a run of three
\* spaces, a URL between spaces, a URL, a bare scheme
TextPieces ==
    {Chars(<<"a">>), Chars(<<" ">>), Chars(<<" ", " ", " ">>), Chars(<<"\n">>),
     Chars(<<"\t">>), Chars(<<" ">> \o HttpPrefix \o <<"x", " ">>),
     Chars(HttpsPrefix \o <<"x">>), Chars(HttpPrefix)}

RECURSIVE Concat(_)
Concat(ss) == IF ss = <<>> THEN <<>> ELSE Head(ss) \o Concat(Tail(ss))

PreprocessTexts == {Concat(ps) : ps \in SeqsUpTo(TextPieces, MaxPieces)}

FnCalls ==
    {[fn |-> "chunk_text", arg |-> t] : t \in ChunkTexts}
        \cup {[fn |-> "phonemes_to_ids", arg |-> [piper |-> c, phonemes |-> ph]] :
                 c \in PiperConfigs, ph \in PhonemeStrings}
        \cup {[fn |-> "generate_audio",
               arg |-> [piper |-> c, espeak |-> e]] :
                 c \in {x \in PiperConfigs : x.loaded},
                 e \in {FnOk(ph) : ph \in PhonemeStrings} \cup {FnErr("PhonemeError")}}
        \cup {[fn |-> "preprocess_text", arg |-> t] : t \in PreprocessTexts}
        \cup {[fn |-> "set_rate", arg |-> <<r1, r2>>] : r1, r2 \in RateInputs}

InitFn ==
    /\ EngineInit
    /\ ManagerInit
    /\ fn_call \in FnCalls
    /\ fn_ret = NoFnResult

Returns(v) ==
    /\ ~fn_ret.done
    /\ fn_ret' = [done |-> TRUE, value |-> v]
    /\ UNCHANGED fn_call
    /\ UNCHANGED <<engine_vars, call_vars, play_vars, log, global_vars, manager_vars>>

ApplyChunkText ==
    /\ fn_call.fn = "chunk_text"
    /\ Returns(chunk_text(fn_call.arg))

ApplyPhonemesToIds ==
    /\ fn_call.fn = "phonemes_to_ids"
    /\ Returns(phonemes_to_ids(fn_call.arg.piper, fn_call.arg.phonemes))

ApplyGenerateAudio ==
    /\ fn_call.fn = "generate_audio"
    /\ \E run \in InferenceOutcomes :
          Returns(generate_audio(fn_call.arg.piper, fn_call.arg.espeak, run))

\* set_rate for each requested rate in turn; after each, the rate stored and
\* the length scale generate_audio hands to inference
RECURSIVE RateTrace(_, _)
RateTrace(cfg, rates) ==
    IF rates = <<>> THEN <<>>
    ELSE LET c == set_rate(cfg, Head(rates))
         IN  <<[rate |-> c.rate, scale |-> length_scale(Inference, c)]>>
                 \o RateTrace(c, Tail(rates))

ApplySetRate ==
    /\ fn_call.fn = "set_rate"
    /\ Returns(RateTrace(DefaultConfig, fn_call.arg))

ApplyPreprocessText ==
    /\ fn_call.fn = "preprocess_text"
    /\ Returns(preprocess_text(fn_call.arg))

NextFn ==
    \/ ApplySetRate
    \/ ApplyPreprocessText
    \/ ApplyChunkText
    \/ ApplyPhonemesToIds
    \/ ApplyGenerateAudio

SpecFn == InitFn /\ [][NextFn]_vars

(***************************************************************************)
(* Properties                                                              *)
(***************************************************************************)
\* positions of the history entries of kind k for unit i
At(k, i) == {p \in DOMAIN log : log[p].k = k /\ log[p].i = i}

\* positions of the history entries of kind k
AtKind(k) == {p \in DOMAIN log : log[p].k = k}

Terminal(e) == e.k \in {"Finished", "Stopped"}

\* the last call was speak_sentences, got past model loading and has returned
SentencesReturned ==
    pc = "idle" /\ call.kind = "speak_sentences" /\ AtKind("mark") # {}

\* the last call was speak, got past model loading and has returned
SpeakReturned ==
    pc = "idle" /\ call.kind = "speak" /\ AtKind("mark") # {}

\* what the receiver sees of an event: its tag, index and text
EventView(e) == <<e.k, IF e.k \in {"Start", "End"} THEN e.i ELSE 0, e.t>>

\* Start(0,s0), End(0), ..., Start(n-1,s_{n-1}), End(n-1), Finished
ExpectedEvents(sentences) ==
    LET n == Len(sentences) IN
    [p \in 1..(2 * n + 1) |->
        IF p = 2 * n + 1 THEN <<"Finished", 0, <<>>>>
        ELSE IF p % 2 = 1 THEN <<"Start", (p - 1) \div 2, sentences[(p + 1) \div 2]>>
        ELSE <<"End", (p \div 2) - 1, <<>>>>]

\* C1: in speak_sentences every Start(i) precedes End(i), and between the Start
\* of a sentence and any later Start (in particular of a sentence with a larger
\* index) lies the End of the earlier sentence.
C1_StartEndOrder ==
    call.kind = "speak_sentences" =>
        /\ \A p \in AtKind("Start") : \A q \in At("End", log[p].i) : p < q
        /\ \A p \in AtKind("Start") : \A q \in AtKind("Start") :
              (p < q \/ log[p].i < log[q].i) =>
                  \E e \in At("End", log[p].i) : p < e /\ e < q

C1_Witness ==
    /\ call.kind = "speak_sentences"
    /\ \E p \in At("Start", 0) : \E e \in At("End", 0) : \E q \in At("Start", 1) :
          p < e /\ e < q

\* C2: when every sentence is non-empty, every synthesis yields a non-empty
\* waveform, every playback succeeds and the flag is never cleared by stop,
\* speak_sentences sends exactly Start(0,s0), End(0), ..., End(n-1), Finished,
\* each Start with the original sentence text, and returns Ok.
C2_AllSucceed ==
    /\ \A j \in DOMAIN call.sentences : preprocess_text(call.sentences[j]) # <<>>
    /\ \A p \in AtKind("gen") : log[p].r = "audio"
    /\ AtKind("playerr") = {}
    /\ AtKind("stop") = {}

C2_ExactEventSequence ==
    (SentencesReturned /\ C2_AllSucceed) =>
        /\ result = "Ok"
        /\ Len(events) = 2 * Len(call.sentences) + 1
        /\ \A p \in DOMAIN events :
              EventView(events[p]) = ExpectedEvents(call.sentences)[p]

C2_Witness ==
    /\ SentencesReturned
    /\ C2_AllSucceed
    /\ call.sentences = <<SentenceA, SentenceB, SentenceC>>

\* C3: a speak_sentences call that got past model loading sends exactly one
\* terminal event, as its last event: Finished, or Stopped with no Finished
\* after it.
C3_OneTerminalEvent ==
    SentencesReturned =>
        /\ Cardinality({p \in DOMAIN events : Terminal(events[p])}) = 1
        /\ Terminal(events[Len(events)])

\* C4: with at least three sentences, when stop clears the flag after Start(1)
\* and before End(1), the stream ends with Stopped and holds no Start for an
\* index above 1.
C4_StopDuringSecond ==
    /\ Len(call.sentences) >= 3
    /\ \E s \in AtKind("stop") :
          /\ \E p \in At("Start", 1) : p < s
          /\ \A e \in At("End", 1) : s < e

C4_StoppedIsLast ==
    (SentencesReturned /\ C4_StopDuringSecond) =>
        /\ events[Len(events)].k = "Stopped"
        /\ \A p \in AtKind("Start") : log[p].i <= 1

\* C5: a stop issued through the process-wide stop while a speak is running
\* clears the flag while that speak is still running: the speak never returns
\* with such a stop still waiting, and no such stop stores only afterwards.
C5_StopDuringSpeak ==
    \A t \in Tasks : stop_info[t] \notin {"pending_missed", "ran_after"}

\* C6: Start(i) is sent only after the audio of sentence i was generated (a
\* non-empty waveform), appended to the sink, and the pre-signal delay elapsed,
\* in that order.
C6_StartAfterAudible ==
    call.kind = "speak_sentences" =>
        \A p \in AtKind("Start") :
            \E g \in At("gen", log[p].i) : \E a \in At("append", log[p].i) :
                \E d \in At("delay", log[p].i) :
                    /\ log[g].r = "audio"
                    /\ g < a /\ a < d /\ d < p

C6_Witness ==
    /\ call.kind = "speak_sentences"
    /\ At("Start", 1) # {}

\* C7 as claimed: every finished play_audio_blocking call that was given an
\* on_start callback has invoked it exactly once.
C7_EveryCallSignals ==
    (HasOnStart /\ pb = "done") => Cardinality(At("Start", index)) = 1

\* C7 as amended: a play_audio_blocking call with an on_start callback invokes
\* it not before the buffer is appended and the delay has passed, exactly once
\* before the polling loop starts when the buffer was appended, and never when
\* setup failed before the append; no index gets two Start events.
C7_SignalsOnceWhenQueued ==
    call.kind = "speak_sentences" =>
        /\ \A p \in AtKind("Start") : Cardinality(At("Start", log[p].i)) = 1
        /\ pb \in {"setup", "delay", "signal"} => At("Start", index) = {}
        /\ pb = "poll" =>
              /\ Cardinality(At("Start", index)) = 1
              /\ \A p \in At("Start", index) : \E a \in At("append", index) : a < p
              /\ At("halt", index) = {}
        /\ pb = "done" =>
              Cardinality(At("Start", index)) =
                  IF At("append", index) # {} THEN 1 ELSE 0

C7_Witness ==
    /\ HasOnStart
    /\ pb = "done"
    /\ At("append", index) # {}
    /\ At("Start", index) # {}
    /\ At("playerr", 0) # {}

\* C8: when synthesis of sentence i fails in speak_sentences, no Start(i) is
\* sent, End(i) is sent, the loop goes on to sentence i+1, and the call returns
\* Ok with a terminal event as its last event.
LoopReached(j) ==
    \/ j >= Len(call.sentences)
    \/ preprocess_text(Sentence(j)) = <<>>
    \/ At("gen", j) # {}
    \/ At("Stopped", j) # {}

C8_FailedSentenceSkipped ==
    SentencesReturned =>
        \A g \in AtKind("gen") :
            log[g].r \in GenErrors =>
                /\ At("Start", log[g].i) = {}
                /\ \E e \in At("End", log[g].i) : g < e
                /\ LoopReached(log[g].i + 1)
                /\ result = "Ok"
                /\ Terminal(events[Len(events)])

C8_Witness ==
    /\ SentencesReturned
    /\ \E g \in At("gen", 0) : log[g].r \in GenErrors
    /\ At("Start", 1) # {}
    /\ At("End", 1) # {}

\* C9: when synthesis of a chunk fails in speak, no later chunk is synthesized,
\* nothing is appended to the sink, the flag is cleared and the error is
\* returned.
C9_SpeakAbortsOnError ==
    call.kind = "speak" =>
        \A g \in AtKind("gen") :
            log[g].r \in GenErrors =>
                /\ pc = "idle"
                /\ \A h \in AtKind("gen") : h <= g
                /\ AtKind("append") = {}
                /\ pb = "off"
                /\ ~is_speaking
                /\ result = log[g].r

C9_Witness ==
    /\ SpeakReturned
    /\ \E g \in At("gen", 0) : log[g].r = "audio"
    /\ \E g \in At("gen", 1) : log[g].r \in GenErrors

\* C10: the flag is true when the first synthesis of a speak or speak_sentences
\* call begins unless stop has cleared it meanwhile, and it is false whenever
\* such a call has returned, on every exit path.
C10_FlagBracketsCall ==
    /\ (pc \in {"sp_gen", "ss_gen"} /\ AtKind("gen") = {}) =>
          (is_speaking \/ AtKind("stop") # {})
    /\ \A p \in AtKind("gen") : \E m \in AtKind("mark") : m < p
    /\ (pc = "idle" /\ call.kind \in {"speak", "speak_sentences"}) => ~is_speaking

C10_Witness ==
    /\ pc = "idle"
    /\ call.kind = "speak"
    /\ result \in GenErrors
    /\ \E g \in At("gen", 0) : log[g].r = "audio"

\* C11: speak calls through the process-wide wrapper are serialized: at most
\* one caller is between obtaining the engine and returning, that caller holds
\* the write lock, an engine call in progress belongs to it, and every other
\* caller that has asked meanwhile is still waiting for the lock.
InsideSpeak(t) == tpc[t] \in {"speak_locked", "speak_running"}

C11_SpeakSerialized ==
    /\ Cardinality({t \in Tasks : InsideSpeak(t)}) <= 1
    /\ \A t \in Tasks : InsideSpeak(t) => writer = t
    /\ (pc # "idle" \/ pb # "off") => \E t \in Tasks : tpc[t] = "speak_running"

C11_Witness ==
    \E t, u \in Tasks :
        /\ tpc[t] = "speak_running"
        /\ pb = "poll"
        /\ tpc[u] = "speak_wait"

\* the size the manifest declares for file f
DeclaredSize(f) ==
    LET i == CHOOSE j \in DOMAIN Model.files : Model.files[j].name = f
    IN  Model.files[i].size

\* every manifest file is in directory state (dir, d) with its declared length
AllFilesExact(dir, d) ==
    dir /\ \A f \in FileNames : d[f].exists /\ d[f].len = DeclaredSize(f)

\* C12: is_model_ready returns true exactly when every manifest file exists
\* with a length equal to its declared size; a missing file, a file one byte
\* short and a file longer than declared each give false.
C12_ReadyIffAllExact ==
    mret.op = "is_model_ready" =>
        /\ mret.result = AllFilesExact(mret.dir0, mret.disk0)
        /\ (\E f \in FileNames :
               \/ ~mret.disk0[f].exists
               \/ mret.disk0[f].len = DeclaredSize(f) - 1
               \/ mret.disk0[f].len > DeclaredSize(f)) => mret.result = FALSE

C12_Witness ==
    /\ mret.op = "is_model_ready"
    /\ mret.result = FALSE
    /\ \E f \in FileNames :
          /\ mret.disk0[f].exists
          /\ mret.disk0[f].len = DeclaredSize(f) - 1
          /\ \A g \in FileNames \ {f} :
                mret.disk0[g].exists /\ mret.disk0[g].len = DeclaredSize(g)

\* the last call was download_model and it has returned
DownloadReturned == mret.op = "download_model" /\ mret.result # "running"

\* the files the last call has requested, in order
Requested == SelectSeq(mlog, LAMBDA e : e.k = "request")

\* C13: download_model on a model that is ready sends no request, leaves every
\* manifest file as it is and returns Ok; the model is then still ready, so a
\* second call in a row does the same.
C13_ReadyDownloadIsNoOp ==
    (mret.op = "download_model" /\ AllFilesExact(mret.dir0, mret.disk0)) =>
        /\ Requested = <<>>
        /\ \A p \in DOMAIN mlog : mlog[p].k # "chunk"
        /\ disk = mret.disk0
        /\ model_dir = mret.dir0
        /\ mret.result \in {"running", "Ok"}
        /\ AllFilesExact(model_dir, disk)

C13_Witness ==
    /\ DownloadReturned
    /\ mret.result = "Ok"
    /\ AllFilesExact(mret.dir0, mret.disk0)
    /\ mret.prev.op = "download_model"
    /\ mret.prev.result = "Ok"

\* C14: whenever download_model has returned Ok, every manifest file is on
\* disk with exactly its declared size.
C14_OkMeansReady ==
    (DownloadReturned /\ mret.result = "Ok") =>
        (AllFilesExact(model_dir, disk) /\ is_model_ready(Model))

RECURSIVE BytesObtained(_)
\* bytes of skipped files plus bytes streamed in the history prefix h
BytesObtained(h) ==
    IF h = <<>> THEN 0
    ELSE LET e == h[Len(h)] IN
         (IF e.k \in {"skip", "chunk"} THEN e.n ELSE 0)
             + BytesObtained(SubSeq(h, 1, Len(h) - 1))

\* C15: every value passed to the progress callback lies in 0..100 and is the
\* whole-number percentage of the bytes obtained so far, skipped files
\* included, relative to the model's total size.
C15_ProgressIsOverallPercent ==
    \A p \in DOMAIN mlog :
        mlog[p].k = "progress" =>
            /\ mlog[p].n \in 0..100
            /\ mlog[p].n = (BytesObtained(SubSeq(mlog, 1, p)) * 100) \div Model.size_bytes

\* file f was as the manifest declares when the last call began
ExactAtStart(f) ==
    mret.dir0 /\ mret.disk0[f].exists /\ mret.disk0[f].len = DeclaredSize(f)

\* file f existed when the last call began
ExistedAtStart(f) == mret.dir0 /\ mret.disk0[f].exists

RequestedNames == {Requested[p].f : p \in DOMAIN Requested}

\* C16: a download_model call that fails with DownloadFailed removes no file
\* and leaves the files of declared size untouched; the call that follows a
\* failed one requests no file whose size matched, requests only files that
\* were missing or of another size, each at most once, and when it gets through
\* the manifest it has requested every one of them.
C16_RetryRequestsWhatIsWrong ==
    /\ (DownloadReturned /\ mret.result = "DownloadFailed") =>
          /\ model_dir
          /\ \A f \in FileNames : ExistedAtStart(f) => disk[f].exists
          /\ \A f \in FileNames : ExactAtStart(f) => disk[f] = mret.disk0[f]
    /\ (mret.op = "download_model" /\ mret.prev.op = "download_model"
            /\ mret.prev.result = "DownloadFailed") =>
          /\ \A f \in RequestedNames : ~ExactAtStart(f)
          /\ Cardinality(RequestedNames) = Len(Requested)
          /\ mret.result = "Ok" =>
                RequestedNames = {f \in FileNames : ~ExactAtStart(f)}

C16_Witness ==
    /\ DownloadReturned
    /\ mret.result = "Ok"
    /\ mret.prev.op = "download_model"
    /\ mret.prev.result = "DownloadFailed"
    /\ Len(Requested) = 1
    /\ \E f \in FileNames : ExactAtStart(f)
    /\ \E f \in FileNames : ExistedAtStart(f) /\ ~ExactAtStart(f)

\* C17: delete_model returns Ok and leaves no model directory, so that
\* is_model_ready is false; when the directory is absent it changes nothing,
\* so deleting twice leaves what deleting once leaves.
C17_DeleteIdempotent ==
    mret.op = "delete_model" =>
        /\ mret.result = "Ok"
        /\ ~model_dir
        /\ \A f \in FileNames : disk[f] = NoFile
        /\ ~is_model_ready(Model)
        /\ ~mret.dir0 => (disk = mret.disk0 /\ model_dir = mret.dir0)

C17_Witness ==
    /\ mret.op = "delete_model"
    /\ ~mret.dir0
    /\ mret.prev.op = "delete_model"
    /\ mret.prev.dir0

\* the pure function fn has been applied to its argument
Applied(fn) == fn_call.fn = fn /\ fn_ret.done

RECURSIVE EachThenBlank(_, _, _)
\* for each character in order, its IDs followed by the blank IDs
EachThenBlank(map, blank, phonemes) ==
    IF phonemes = <<>> THEN <<>>
    ELSE map[Head(phonemes)] \o blank \o EachThenBlank(map, blank, Tail(phonemes))

RECURSIVE SumLen(_, _)
SumLen(map, phonemes) ==
    IF phonemes = <<>> THEN 0
    ELSE Len(map[Head(phonemes)]) + SumLen(map, Tail(phonemes))

\* C18: for a phoneme string of k characters, all in the phoneme-ID map,
\* phonemes_to_ids returns the start IDs, the blank IDs, then for each
\* character in order its IDs followed by the blank IDs, then the end IDs: k+1
\* blank blocks in all.  (It is an error only when that list is empty.)
C18_BlanksInterleaved ==
    (/\ Applied("phonemes_to_ids")
     /\ fn_call.arg.piper.loaded
     /\ \A i \in DOMAIN fn_call.arg.phonemes :
           fn_call.arg.phonemes[i] \in DOMAIN fn_call.arg.piper.phoneme_id_map) =>
        LET map      == fn_call.arg.piper.phoneme_id_map
            phonemes == fn_call.arg.phonemes
            k        == Len(phonemes)
            start    == MapGet(map, "^")
            blank    == MapGet(map, "_")
            end      == MapGet(map, "$")
            expected == start \o blank \o EachThenBlank(map, blank, phonemes) \o end
            ret      == fn_ret.value
        IN  /\ ret.ok = (expected # <<>>)
            /\ ret.ok =>
                  /\ ret.value = expected
                  /\ SubSeq(ret.value, 1, Len(start) + Len(blank)) = start \o blank
                  /\ SubSeq(ret.value, Len(ret.value) - Len(end) + 1, Len(ret.value)) = end
                  /\ Len(ret.value) =
                        Len(start) + Len(end) + (k + 1) * Len(blank) + SumLen(map, phonemes)

C18_Witness ==
    /\ Applied("phonemes_to_ids")
    /\ fn_call.arg.piper.loaded
    /\ fn_call.arg.piper.phoneme_id_map = FullMap
    /\ fn_call.arg.phonemes = <<"a", " ", "b">>
    /\ fn_ret.value.ok

\* C19: when the phoneme string is not empty and holds only symbols absent
\* from the phoneme-ID map, and the map has the start, blank and end sentinels,
\* generate_audio fails with PhonemeError without running the session.
C19_UnknownOnlyFails ==
    (/\ Applied("generate_audio")
     /\ fn_call.arg.espeak.ok
     /\ fn_call.arg.espeak.value # <<>>
     /\ {"^", "_", "$"} \subseteq DOMAIN fn_call.arg.piper.phoneme_id_map
     /\ \A i \in DOMAIN fn_call.arg.espeak.value :
           fn_call.arg.espeak.value[i] \notin DOMAIN fn_call.arg.piper.phoneme_id_map) =>
        /\ fn_ret.value.result = "PhonemeError"
        /\ ~fn_ret.value.inferred

RECURSIVE JoinWithSpace(_)
\* the texts of a list joined by single spaces
JoinWithSpace(texts) ==
    IF texts = <<>> THEN <<>>
    ELSE IF Len(texts) = 1 THEN texts[1]
    ELSE texts[1] \o <<Ch(" ")>> \o JoinWithSpace(Tail(texts))

RECURSIVE GroupsOf(_, _)
\* the parts are, in order, groups of one or more consecutive sentences that
\* together use every sentence once
GroupsOf(parts, sents) ==
    IF parts = <<>> THEN sents = <<>>
    ELSE \E j \in 1..Len(sents) :
            /\ Head(parts) = JoinWithSpace(SubSeq(sents, 1, j))
            /\ GroupsOf(Tail(parts), SubSeq(sents, j + 1, Len(sents)))

\* every part has at most MAX_CHUNK_SIZE characters or is one sentence that is
\* longer by itself
WithinLimit(parts, sents) ==
    \A i \in DOMAIN parts :
        \/ TextLen(parts[i]) <= MAX_CHUNK_SIZE
        \/ \E j \in DOMAIN sents :
              parts[i] = sents[j] /\ TextLen(sents[j]) > MAX_CHUNK_SIZE

\* C20 as claimed: every chunk chunk_text returns is a group of whole
\* sentences, the groups use every sentence once and in order, and every
\* chunk is at most 500 characters long unless it is one sentence longer than
\* 500.
C20_ChunksAreWholeSentences ==
    Applied("chunk_text") =>
        /\ GroupsOf(fn_ret.value, ChunkSentences(fn_call.arg))
        /\ WithinLimit(fn_ret.value, ChunkSentences(fn_call.arg))

\* C20 as amended: that holds for a text with at least one sentence; a text
\* without any (only terminators and whitespace) comes back as one chunk, the
\* text itself whatever its length, and the empty text gives no chunk.
C20_ChunksAreSentencesOrText ==
    Applied("chunk_text") =>
        LET sents == ChunkSentences(fn_call.arg) IN
        IF sents # <<>>
        THEN /\ GroupsOf(fn_ret.value, sents)
             /\ WithinLimit(fn_ret.value, sents)
        ELSE fn_ret.value = IF fn_call.arg = <<>> THEN <<>> ELSE <<fn_call.arg>>

C20_Witness ==
    /\ Applied("chunk_text")
    /\ Len(ChunkSentences(fn_call.arg)) = 3
    /\ Len(fn_ret.value) = 2
    /\ TextLen(fn_ret.value[1]) > 250

\* the two sentences of a text, joined by a space, do not fit one chunk
TwoSentencesOverflow(sents) ==
    TextLen(sents[1]) + TextLen(sents[2]) + 1 > MAX_CHUNK_SIZE

InRange(x) == ~x.nan /\ ~Lt(x, Half) /\ ~Lt(Two, x)

\* C22: after any set_rate calls and speak calls with a rate override the
\* engine's rate lies in [0.5, 2.0]
C22_RateInRange ==
    initialized => InRange(config.rate)

\* the position of a positive f32 value in the order of its bit patterns
Ord(x) == (x.e + 8) * 2^23 + (x.m - 2^23)

C23_WitnessStrict ==
    /\ Applied("set_rate")
    /\ fn_call.arg = <<One, Three>>
    /\ fn_ret.value[1].scale = One
    /\ fn_ret.value[2].scale = Half

\* the text has the characters of p at position i
HasAt(s, i, p) ==
    /\ i + Len(p) - 1 <= Len(s)
    /\ \A j \in 1..Len(p) : s[i + j - 1].c = p[j]

\* C24: the output of preprocess_text contains no newline or tab, no two
\* consecutive spaces, no substring starting with http:// or https://, and
\* no leading or trailing whitespace
C24_CleanOutput ==
    Applied("preprocess_text") =>
        LET out == fn_ret.value
        IN  /\ \A i \in DOMAIN out : out[i].c \notin {"\n", "\t"}
            /\ \A i \in DOMAIN out : ~HasAt(out, i, <<" ", " ">>)
            /\ \A i \in DOMAIN out :
                   ~HasAt(out, i, HttpPrefix) /\ ~HasAt(out, i, HttpsPrefix)
            /\ out # <<>> => ~IsWs(out[1]) /\ ~IsWs(out[Len(out)])

\* a call of one of the given kinds begins in this step
Begins(kinds) == call.kind = "none" /\ call'.kind \in kinds

\* C25: with no model loaded and the configured model not ready on disk, speak
\* and speak_sentences return ModelNotLoaded at once, with no event, no
\* inference or playback step, and the speaking flag and the loaded-model
\* state as they were
C25_NotReadyFailsCleanly ==
    [][(Begins({"speak", "speak_sentences"}) /\ model_session = "none" /\ ~disk_ready) =>
          /\ result' = "ModelNotLoaded"
          /\ log' = <<>>
          /\ pc' = "idle"
          /\ pb' = pb
          /\ is_speaking' = is_speaking
          /\ <<model_session, loaded_model, piper_config, config>>' =
                 <<model_session, loaded_model, piper_config, config>>]_vars

C25_Witness ==
    /\ pc = "idle"
    /\ call.kind \in {"speak", "speak_sentences"}
    /\ model_session = "none"
    /\ ~disk_ready
    /\ result = "ModelNotLoaded"
    /\ log = <<>>

\* C27: load_model(id) when id is already the loaded model returns Ok and leaves
\* the session, the loaded config, the loaded-model identifier and the engine
\* configuration unchanged, whatever the state of the files on disk
C27_ReloadIsNoOp ==
    [][(Begins({"load_model"}) /\ call'.model = loaded_model) =>
          /\ result' = "Ok"
          /\ <<model_session, loaded_model, piper_config, config>>' =
                 <<model_session, loaded_model, piper_config, config>>]_vars

\* C26: the public speak falls back to the native path only when the model could
\* not be loaded at the call site, never for an engine failure after the
\* model was loaded
C26_FallbackOnlyWhenUnavailable ==
    [][\A t \in Tasks :
          (tres[t] # "Fallback" /\ tres'[t] = "Fallback") => AtKind("mark") = {}]_vars

\* C28: a playback or device failure for one unit is not fatal: speak still
\* returns Ok with the speaking flag cleared; speak_sentences still sends
\* End(i) for that sentence, goes on to every following sentence (unless a
\* stop cancels the call), ends with a terminal event and returns Ok
C28_PlaybackFailureNotFatal ==
    /\ (SpeakReturned /\ AtKind("playerr") # {}) =>
           result = "Ok" /\ ~is_speaking
    /\ (SentencesReturned /\ AtKind("playerr") # {}) =>
           /\ result = "Ok"
           /\ ~is_speaking
           /\ Terminal(events[Len(events)])
           /\ \A p \in AtKind("playerr") :
                  /\ \E e \in At("End", log[p].i) : p < e
                  /\ \A j \in (log[p].i + 1)..(Len(call.sentences) - 1) :
                         \/ preprocess_text(Sentence(j)) = <<>>
                         \/ At("gen", j) # {}
                         \/ \E q \in AtKind("Stopped") : log[q].i <= j

\* the playback of sentence 0 failed, and sentence 1 was played afterwards
C28_Witness ==
    /\ SentencesReturned
    /\ At("playerr", 0) # {}
    /\ At("End", 0) # {}
    /\ At("Start", 1) # {}
    /\ events[Len(events)].k = "Finished"

\* the only playback of a speak call failed, and speak returned Ok
C28_WitnessSpeak ==
    /\ SpeakReturned
    /\ AtKind("playerr") # {}
    /\ result = "Ok"

\* the points of the history at which a playback was started
PlaybackStarts == AtKind("append") \cup AtKind("playerr")

\* C29: in speak, playback starts only after inference has finished for every
\* chunk, the played waveform is the concatenation of the chunk waveforms in
\* chunk order, and at most one playback is started per call
C29_PlayAfterAllInference ==
    call.kind = "speak" =>
        /\ Cardinality(PlaybackStarts) <= 1
        /\ \A p \in PlaybackStarts :
               /\ \A j \in 0..(Len(chunks) - 1) : \E g \in At("gen", j) : g < p
               /\ \A g \in AtKind("gen") : g < p
               /\ all_audio = SelectSeq([j \in 1..Len(chunks) |-> j - 1],
                                        LAMBDA j : \E g \in At("gen", j) : log[g].r = "audio")

\* C30: a get_status request made while a speak is in progress on the global
\* engine is answered during that speak and reports is_speaking = true; it
\* reports false only when no speak is in progress
C30_StatusDuringSpeak ==
    \A t \in Tasks :
        /\ status_info[t].asked # "missed"
        /\ (status_info[t].asked = "during" /\ status_info[t].answered) =>
               status_info[t].is_speaking

\* C31: the disk-space preflight never blocks a download: whenever free space
\* cannot be determined (the probe cannot be run or fails) download_model goes
\* on to the files instead of returning an error
C31_PreflightFailsOpen ==
    (mret.op = "download_model" /\ mlog # <<>> /\ mlog[1].f # "success") =>
        mret.result # "IoError"

\* C32: once the flag was cleared during a speak_sentences call, no inference
\* is started for a further sentence and no Start event is sent afterwards,
\* also not for the sentence whose inference was in flight
C32_NothingStartsAfterStop ==
    call.kind = "speak_sentences" =>
        \A s \in AtKind("stop") :
            /\ \A g \in AtKind("gen") : s < g => log[g].i = log[s].i
            /\ \A p \in AtKind("Start") : p < s

\* every Start of the history has an End of the same sentence after it
StartsEnded ==
    \A p \in AtKind("Start") : \E e \in At("End", log[p].i) : p < e

\* C33: in speak_sentences every Start(i) sent is eventually followed by
\* End(i), and that End(i) comes before the terminal event, also when the
\* playback of sentence i is cut short by a stop
C33_StartEventuallyEnded ==
    /\ [](SentencesReturned =>
            \A p \in AtKind("Start") : \E e \in At("End", log[p].i) :
                p < e /\ \A t \in DOMAIN log : Terminal(log[t]) => e < t)
    /\ (call.kind = "speak_sentences" /\ ~StartsEnded) ~> StartsEnded

\* sentence 0 was cut short by a stop after its Start, and got its End
C33_Witness ==
    /\ SentencesReturned
    /\ \E p \in At("Start", 0) : \E h \in At("halt", 0) : \E e \in At("End", 0) :
          p < h /\ h < e

\* C38: every speak_sentences call that got past model loading eventually
\* sends its terminal event and returns, with or without a stop arriving at
\* any point; the Start callback and the task awaiting the playback never
\* wait for each other
C38_SpeakSentencesTerminates ==
    (call.kind = "speak_sentences" /\ pc # "idle") ~>
        (SentencesReturned /\ Terminal(events[Len(events)]))

\* a call returned although its first playback failed before the callback ran
\* and a stop arrived later
C38_Witness ==
    /\ SentencesReturned
    /\ At("playerr", 0) # {}
    /\ AtKind("stop") # {}
    /\ Terminal(events[Len(events)])

\* C34: speak_sentences sends Finished only on normal completion: when the flag
\* was cleared at any point of the call, the stream holds Stopped and no
\* Finished
C34_FinishedOnlyWhenNotStopped ==
    (SentencesReturned /\ AtKind("stop") # {}) =>
        AtKind("Stopped") # {} /\ AtKind("Finished") = {}

\* C34, the last sentence: the flag was cleared during the playback of the
\* last sentence and the stream holds no Stopped at all
C34_LastSentence ==
    ~ /\ SentencesReturned
      /\ \E s \in AtKind("stop") : \E h \in AtKind("halt") :
            s < h /\ log[h].i = Len(call.sentences) - 1
      /\ AtKind("Stopped") = {}

\* C39: without cancellation every sentence of the list gets an End event with
\* its list index, also a sentence that is empty after normalization, so
\* there are as many End events as sentences
C39_EveryReachedSentenceEnds ==
    (SentencesReturned /\ AtKind("stop") = {}) =>
        /\ \A j \in 0..(Len(call.sentences) - 1) : At("End", j) # {}
        /\ Cardinality(AtKind("End")) = Len(call.sentences)

\* C40: in speak, when the flag is cleared while chunks are still being
\* synthesized, the remaining chunks are not synthesized and no audio is
\* handed to the output device
C40_StopDuringSynthesis ==
    call.kind = "speak" =>
        \A s \in AtKind("stop") :
            log[s].i < Len(chunks) =>
                /\ \A g \in AtKind("gen") : s < g => log[g].i = log[s].i
                /\ AtKind("append") = {}

\* the IDs a character stands for: its own, or for unmapped whitespace those
\* of the space token; none when it emits no symbol
SymbolIds(map, ch) ==
    IF ch \in DOMAIN map THEN map[ch]
    ELSE IF ch \in Whitespace THEN MapGet(map, " ")
    ELSE <<>>

RECURSIVE SymbolsThenBlank(_, _, _)
\* for each character that emits a symbol, in order, its IDs and one blank block
SymbolsThenBlank(map, blank, phonemes) ==
    IF phonemes = <<>> THEN <<>>
    ELSE LET ids == SymbolIds(map, Head(phonemes)) IN
         (IF ids = <<>> THEN <<>> ELSE ids \o blank)
             \o SymbolsThenBlank(map, blank, Tail(phonemes))

\* C35: for an arbitrary phoneme string phonemes_to_ids emits exactly one blank
\* block after each emitted symbol block and never two adjacent blank blocks;
\* its result is the result for the string without the characters that emit
\* no symbol
C35_OneBlankPerSymbol ==
    (Applied("phonemes_to_ids") /\ fn_call.arg.piper.loaded) =>
        LET map      == fn_call.arg.piper.phoneme_id_map
            phonemes == fn_call.arg.phonemes
            blank    == MapGet(map, "_")
            expected == MapGet(map, "^") \o blank
                            \o SymbolsThenBlank(map, blank, phonemes) \o MapGet(map, "$")
            emitting == SelectSeq(phonemes, LAMBDA ch : SymbolIds(map, ch) # <<>>)
        IN  /\ fn_ret.value.ok => fn_ret.value.value = expected
            /\ fn_ret.value = phonemes_to_ids(fn_call.arg.piper, emitting)

\* C36: in every reachable engine state the loaded-model identifier, the
\* session and the Piper config are all set for the same model or all unset;
\* a load_model call that fails leaves the three as they were
C36_LoadedFieldsAgree ==
    /\ loaded_model = model_session
    /\ model_session = piper_config

\* C37: speak and speak_sentences run inference only when the configured
\* model is on disk at the time of the call; called after the files were
\* deleted they synthesize nothing and fail with ModelNotLoaded, also when a
\* session had been loaded earlier
C37_NoInferenceWithoutFiles ==
    (call.kind \in {"speak", "speak_sentences"} /\ ~disk_ready) =>
        /\ AtKind("gen") = {}
        /\ result = "ModelNotLoaded"

====
